---- MODULE Spec2Model ----
(***************************************************************************)
(* State-machine model of the Kubernetes access layer of PlatformOps:      *)
(* apps/api/app/services/kubernetes.py (KubernetesService, a process-wide  *)
(* singleton), its routes in apps/api/app/api/v1/kubernetes.py, the        *)
(* settings property Settings.kubeconfig_path, the stream handlers of      *)
(* apps/api/app/api/v1/websocket.py, and the demo range query of           *)
(* apps/api/app/services/prometheus.py.                                    *)
(*                                                                         *)
(* Python's None is the string "None".  The kubernetes client library, the *)
(* file system and the live clusters are the environment: what they hold   *)
(* is state, whether one of their calls throws is an input of the action   *)
(* that makes the call.                                                    *)
(***************************************************************************)
EXTENDS Integers, Sequences, FiniteSets, TLC

VARIABLES
    k8s_available,      \* self._k8s_available: the client library imported
    active_context,     \* self._active_context
    current_context,    \* self._current_context
    loaded,             \* the client library's process-wide default configuration
    kubeconfig_default, \* settings.kubeconfig_default (KUBECONFIG_DEFAULT)
    fs,                 \* the paths that exist on disk
    incluster,          \* load_incluster_config() succeeds
    kubefile,           \* the content of the kubeconfig file
    cluster,            \* the live clusters: deployments and pods of each
    metrics_api,        \* what metrics.k8s.io and the node objects report
    active_connections, \* manager.active_connections (api/v1/websocket.py)
    websockets,         \* each WebSocket: its client and its stream handler
    range_query,        \* the demo range query in progress (services/prometheus.py)
    calls,              \* the live API calls issued by the last operation
    result              \* the response of the last operation

vars == <<k8s_available, active_context, current_context, loaded,
          kubeconfig_default, fs, incluster, kubefile, cluster, metrics_api,
          active_connections, websockets, range_query, calls, result>>

svc_vars == <<active_context, current_context, loaded>>
env_vars == <<k8s_available, kubeconfig_default, fs, incluster, kubefile>>
ws_vars == <<active_connections, websockets>>

None == "None"

\* The WebSocket connections of the model.
WebSockets == {"ws-1", "ws-2"}

\* A WebSocket no client has opened: its handler has not started.
Unopened == [client |-> "unopened", endpoint |-> None, pc |-> "idle", late |-> 0]

\* ConnectionManager.__init__, with no connection opened yet.
NoStreams ==
    /\ active_connections = <<>>
    /\ websockets = [w \in WebSockets |-> Unopened]

\* No range query in progress.
NoRangeQuery ==
    range_query = [pc |-> "idle", current |-> 0, end |-> 0, step_seconds |-> 0,
                   points |-> 0]

\* ---------------------------------------------------------------- bounds

\* The count of sends after the client's disconnection saturates here.
MaxLate == 2

\* The count of data points of a range query saturates here.
MaxPoints == 4

\* The earliest start of a range query, in seconds after the earliest
\* instant a datetime holds.
MinStart == 3

\* The most contexts a kubeconfig file of the model holds.
MaxContexts == 3

\* The latest time at which a restart is requested.
MaxClock == 1

\* ------------------------------------------------------------ environment

CfgPath == "/etc/platformops/kubeconfig"
HomePath == "~/.kube/config"

\* The contexts a kubeconfig file may list, in file order: name and cluster.
ContextTable ==
    << [name |-> "ctx-a", cluster |-> "kube-a"],
       [name |-> "ctx-b", cluster |-> "kube-b"],
       [name |-> "ctx-c", cluster |-> "kube-c"],
       [name |-> "ctx-d", cluster |-> "kube-d"],
       [name |-> "ctx-e", cluster |-> "kube-e"] >>

Range(s) == {s[i] : i \in 1..Len(s)}

ContextNames(file) == {file.contexts[i].name : i \in 1..Len(file.contexts)}

\* The kubeconfig files of the model: unloadable, or the first n contexts of
\* the table with the last of them, or none, as current-context.
KubeFiles ==
    { [loadable |-> FALSE, contexts |-> <<>>, current |-> None] }
    \cup
    { [loadable |-> TRUE, contexts |-> SubSeq(ContextTable, 1, n), current |-> None] :
        n \in 0..MaxContexts }
    \cup
    { [loadable |-> TRUE, contexts |-> SubSeq(ContextTable, 1, n),
       current |-> ContextTable[n].name] : n \in 1..MaxContexts }

\* The clusters a connection can point at: one per context, and the cluster
\* the process itself runs in.
ClusterIds == {ContextTable[i].name : i \in 1..Len(ContextTable)} \cup {"in-cluster"}

\* Settings.kubeconfig_path
kubeconfig_path ==
    IF kubeconfig_default # None THEN kubeconfig_default
    ELSE IF HomePath \in fs THEN HomePath
    ELSE None

\* kubernetes.config.load_kube_config(config_file, context): succeeds when the
\* file parses and the context asked for (the file's current-context when
\* none is given) is one of the file's contexts.
load_kube_config_ok(context) ==
    /\ kubefile.loadable
    /\ IF context = None
         THEN kubefile.current \in ContextNames(kubefile)
         ELSE context \in ContextNames(kubefile)

\* kubernetes.config.list_kube_config_contexts(config_file) does not throw.
list_kube_config_contexts_ok == kubefile.loadable

\* ------------------------------------------------------------- exceptions

\* What a live call can throw: the client's ApiException with the reason
\* the server gave, or any other exception (a connection error).
Exceptions ==
    { [type |-> "ApiException", reason |-> "Forbidden"],
      [type |-> "Exception", reason |-> "Connection refused"] }

\* No exception: the call returned.
NoException == [type |-> "none", reason |-> ""]

\* str(e)
str(e) == IF e.type = "ApiException" THEN "(" \o e.reason \o ")" ELSE e.reason

\* ----------------------------------------------------------- live clusters

\* Raw node objects of a live cluster (CoreV1Api.list_node().items).
LiveNodes(cid) ==
    << [name |-> "node-1",
        conditions |-> << [type |-> "MemoryPressure", status |-> "False"],
                          [type |-> "Ready", status |-> "True"] >>,
        labels |-> << "node-role.kubernetes.io/control-plane" >>,
        addresses |-> << [type |-> "InternalIP", address |-> "10.1.0.1"],
                         [type |-> "ExternalIP", address |-> "34.0.0.1"] >>],
       [name |-> "node-2",
        conditions |-> << [type |-> "Ready", status |-> "Unknown"],
                          [type |-> "DiskPressure", status |-> "True"] >>,
        labels |-> << "kubernetes.io/hostname" >>,
        addresses |-> << [type |-> "InternalIP", address |-> "10.1.0.2"] >>],
       [name |-> "node-3",
        conditions |-> << [type |-> "MemoryPressure", status |-> "True"],
                          [type |-> "DiskPressure", status |-> "True"] >>,
        labels |-> << "node-role.kubernetes.io/master" >>,
        addresses |-> << >>],
       [name |-> "node-4",
        conditions |-> << [type |-> "MemoryPressure", status |-> "True"],
                          [type |-> "DiskPressure", status |-> "True"],
                          [type |-> "Ready", status |-> "True"],
                          [type |-> "PIDPressure", status |-> "True"] >>,
        labels |-> << "kubernetes.io/hostname" >>,
        addresses |-> << [type |-> "InternalIP", address |-> "10.1.0.4"],
                         [type |-> "ExternalIP", address |-> "34.0.0.4"],
                         [type |-> "InternalIP", address |-> "fd00::4"],
                         [type |-> "ExternalIP", address |-> "2600::4"] >>],
       [name |-> "node-5",
        conditions |-> << [type |-> "Ready", status |-> "False"],
                          [type |-> "MemoryPressure", status |-> "False"] >>,
        labels |-> << >>,
        addresses |-> << [type |-> "Hostname", address |-> "node-5"] >>],
       [name |-> "node-6",
        conditions |-> << >>,
        labels |-> << >>,
        addresses |-> << >>] >>

\* Raw namespace objects of a live cluster (CoreV1Api.list_namespace().items).
LiveNamespaces(cid) ==
    << [name |-> "default", phase |-> "Active"],
       [name |-> "backend", phase |-> "Terminating"] >>

\* The attributes of the pods a live cluster may run.
PodTable ==
    << [name |-> "web-1", namespace |-> "default", phase |-> "Running",
        node_name |-> "node-1", restarts |-> <<0, 1>>],
       [name |-> "web-2", namespace |-> "default", phase |-> "Running",
        node_name |-> "node-2", restarts |-> <<4, 2>>],
       [name |-> "job-1", namespace |-> "backend", phase |-> "Succeeded",
        node_name |-> "node-2", restarts |-> <<0>>] >>

PodNames == {PodTable[i].name : i \in 1..Len(PodTable)}

\* The deployments of a live cluster, and the namespace of each.
DeploymentTable ==
    << [name |-> "web", namespace |-> "default", image |-> "shop/web:1.4"],
       [name |-> "api", namespace |-> "backend", image |-> "shop/api:2.0"] >>

DeploymentNames == {DeploymentTable[i].name : i \in 1..Len(DeploymentTable)}

\* The state of a cluster before any mutation: spec.replicas is unset on
\* one deployment (the empty sequence) and set on the other.
InitialCluster ==
    [deployments |->
        [d \in DeploymentNames |->
            [replicas |-> IF d = "web" THEN <<>> ELSE <<2>>,
             restartedAt |-> 0]],
     pods |-> PodNames]

\* The attributes of further pods a live cluster may run: the phases
\* Kubernetes defines with restart counts on both sides of 5, and a pod that
\* reports no phase yet.
StrayPodTable ==
    << [name |-> "crash-1", namespace |-> "default", phase |-> "Failed",
        node_name |-> "node-1", restarts |-> <<4, 3>>],
       [name |-> "crash-2", namespace |-> "backend", phase |-> "Failed",
        node_name |-> "node-1", restarts |-> <<5>>],
       [name |-> "slow-1", namespace |-> "default", phase |-> "Pending",
        node_name |-> None, restarts |-> <<6>>],
       [name |-> "slow-2", namespace |-> "default", phase |-> "Pending",
        node_name |-> None, restarts |-> <<>>],
       [name |-> "busy-1", namespace |-> "default", phase |-> "Running",
        node_name |-> "node-2", restarts |-> <<2, 3>>],
       [name |-> "done-1", namespace |-> "backend", phase |-> "Succeeded",
        node_name |-> "node-2", restarts |-> <<3, 3>>],
       [name |-> "lost-1", namespace |-> "default", phase |-> "Unknown",
        node_name |-> "node-2", restarts |-> <<1>>],
       [name |-> "new-1", namespace |-> "default", phase |-> None,
        node_name |-> None, restarts |-> <<>>] >>

StrayPodNames == {StrayPodTable[i].name : i \in 1..Len(StrayPodTable)}

\* Raw pod objects of a live cluster, all namespaces.
LivePods(cid) ==
    SelectSeq(PodTable \o StrayPodTable, LAMBDA p : p.name \in cluster[cid].pods)

\* ------------------------------------------------------------- demo data

\* _get_demo_clusters
get_demo_clusters ==
    << [name |-> "demo-local", context |-> "demo-local", status |-> "connected",
        version |-> "1.28", node_count |-> 3, namespace_count |-> 8,
        pod_count |-> 24, error |-> None],
       [name |-> "demo-staging", context |-> "demo-staging",
        status |-> "disconnected", version |-> None, node_count |-> 0,
        namespace_count |-> 0, pod_count |-> 0,
        error |-> "Demo cluster - not connected"] >>

\* _get_demo_nodes
get_demo_nodes ==
    << [name |-> "demo-control-plane", status |-> "healthy", role |-> "control-plane",
        internal_ip |-> "10.0.0.1", external_ip |-> None,
        conditions |-> [t \in {"Ready", "MemoryPressure", "DiskPressure"} |-> t = "Ready"]],
       [name |-> "demo-worker-1", status |-> "healthy", role |-> "worker",
        internal_ip |-> "10.0.0.2", external_ip |-> None,
        conditions |-> [t \in {"Ready", "MemoryPressure", "DiskPressure"} |-> t = "Ready"]],
       [name |-> "demo-worker-2", status |-> "warning", role |-> "worker",
        internal_ip |-> "10.0.0.3", external_ip |-> None,
        conditions |-> [t \in {"Ready", "MemoryPressure", "DiskPressure"} |-> t # "DiskPressure"]] >>

\* _get_demo_pods
get_demo_pods ==
    << [name |-> "nginx-deployment-abc123", namespace |-> "default", phase |-> "Running",
        status |-> "healthy", node_name |-> "demo-worker-1", restart_count |-> 0],
       [name |-> "api-server-xyz789", namespace |-> "backend", phase |-> "Running",
        status |-> "healthy", node_name |-> "demo-worker-1", restart_count |-> 2],
       [name |-> "redis-master-0", namespace |-> "cache", phase |-> "Running",
        status |-> "healthy", node_name |-> "demo-worker-2", restart_count |-> 0],
       [name |-> "crashloop-pod-def456", namespace |-> "default", phase |-> "Running",
        status |-> "warning", node_name |-> "demo-worker-2", restart_count |-> 15] >>

\* _get_demo_namespaces
get_demo_namespaces ==
    << [name |-> "default", status |-> "healthy", pod_count |-> 5,
        deployment_count |-> 2, service_count |-> 3],
       [name |-> "kube-system", status |-> "healthy", pod_count |-> 12,
        deployment_count |-> 4, service_count |-> 2],
       [name |-> "backend", status |-> "healthy", pod_count |-> 8,
        deployment_count |-> 3, service_count |-> 4],
       [name |-> "monitoring", status |-> "healthy", pod_count |-> 6,
        deployment_count |-> 3, service_count |-> 5] >>

\* The list `deployments` of _get_demo_deployments
DemoDeployments ==
    << [name |-> "frontend", namespace |-> "default", replicas |-> 3,
        image |-> "myapp/frontend:v2.1.0", strategy |-> "RollingUpdate"],
       [name |-> "backend-api", namespace |-> "backend", replicas |-> 5,
        image |-> "myapp/api:v1.8.3", strategy |-> "RollingUpdate"],
       [name |-> "worker", namespace |-> "backend", replicas |-> 2,
        image |-> "myapp/worker:v1.4.0", strategy |-> "RollingUpdate"],
       [name |-> "prometheus", namespace |-> "monitoring", replicas |-> 1,
        image |-> "prom/prometheus:v2.45.0", strategy |-> "Recreate"] >>

\* _get_demo_deployments(namespace)
get_demo_deployments(namespace) ==
    IF namespace # None
      THEN SelectSeq(DemoDeployments, LAMBDA d : d.namespace = namespace)
      ELSE DemoDeployments

\* ------------------------------------------------------- credential resolver

\* _load_kubeconfig falling through to the in-cluster credentials when the
\* configured file is missing.
load_kubeconfig_falls_through ==
    IF ~k8s_available
      THEN [ok |-> FALSE, error |-> "kubernetes package not installed",
            active |-> active_context, loaded |-> loaded, incluster_tried |-> FALSE]
    ELSE IF kubeconfig_path = None \/ kubeconfig_path \notin fs
      THEN IF incluster
             THEN [ok |-> TRUE, error |-> None, active |-> "in-cluster",
                   loaded |-> "in-cluster", incluster_tried |-> TRUE]
             ELSE [ok |-> FALSE,
                   error |-> "No kubeconfig found and not running in-cluster",
                   active |-> active_context, loaded |-> loaded,
                   incluster_tried |-> TRUE]
    ELSE IF ~load_kube_config_ok(None)
      THEN [ok |-> FALSE, error |-> "Invalid kube-config file",
            active |-> active_context, loaded |-> loaded, incluster_tried |-> FALSE]
    ELSE [ok |-> TRUE, error |-> None, active |-> kubefile.current,
          loaded |-> kubefile.current, incluster_tried |-> FALSE]

\* KubernetesService._load_kubeconfig: (success, error_message), with the
\* values it leaves in self._active_context and in the library's default
\* configuration, and whether it tried the in-cluster credentials.
load_kubeconfig ==
    IF ~k8s_available
      THEN [ok |-> FALSE, error |-> "kubernetes package not installed",
            active |-> active_context, loaded |-> loaded, incluster_tried |-> FALSE]
    ELSE IF kubeconfig_path = None
      THEN IF incluster
             THEN [ok |-> TRUE, error |-> None, active |-> "in-cluster",
                   loaded |-> "in-cluster", incluster_tried |-> TRUE]
             ELSE [ok |-> FALSE,
                   error |-> "No kubeconfig found and not running in-cluster",
                   active |-> active_context, loaded |-> loaded,
                   incluster_tried |-> TRUE]
    ELSE IF kubeconfig_path \notin fs
      THEN [ok |-> FALSE, error |-> "Kubeconfig not found at " \o kubeconfig_path,
            active |-> active_context, loaded |-> loaded, incluster_tried |-> FALSE]
    ELSE IF ~load_kube_config_ok(None)
      THEN [ok |-> FALSE, error |-> "Invalid kube-config file",
            active |-> active_context, loaded |-> loaded, incluster_tried |-> FALSE]
    ELSE [ok |-> TRUE, error |-> None, active |-> kubefile.current,
          loaded |-> kubefile.current, incluster_tried |-> FALSE]

\* ---------------------------------------------------- cluster access facade

\* One live call: the client method and its arguments.
Call(api, args) == [api |-> api, args |-> args]

Max(S) == CHOOSE x \in S : \A y \in S : y <= x

\* The first k elements of s (all of s when it is shorter).
Prefix(s, k) == SubSeq(s, 1, IF k < Len(s) THEN k ELSE Len(s))

\* The label keys in which Python's `"control-plane" in label or "master" in
\* label` holds.
RoleLabels ==
    { "node-role.kubernetes.io/control-plane", "node-role.kubernetes.io/master" }

\* get_nodes with a status that a pressure condition degrades.
node_status_with_pressure(conditions) ==
    LET ready == {i \in 1..Len(conditions) : conditions[i].type = "Ready"}
        pressure == {i \in 1..Len(conditions) :
                        conditions[i].type # "Ready" /\ conditions[i].status = "True"}
    IN  IF ready = {} THEN "unknown"
        ELSE IF conditions[Max(ready)].status # "True" THEN "error"
        ELSE IF pressure # {} THEN "warning"
        ELSE "healthy"

\* get_nodes, the loop over node.status.conditions: the status after it.
node_status(conditions) ==
    LET ready == {i \in 1..Len(conditions) : conditions[i].type = "Ready"}
    IN  IF ready = {} THEN "unknown"
        ELSE IF conditions[Max(ready)].status = "True" THEN "healthy"
        ELSE "error"

\* get_nodes, the loop over node.status.addresses: the address a variable
\* assigned on every match holds after it.
node_address(addresses, type) ==
    LET hit == {i \in 1..Len(addresses) : addresses[i].type = type}
    IN  IF hit = {} THEN None ELSE addresses[Max(hit)].address

\* get_nodes, the NodeInfo built from one raw node.
node_info(node) ==
    [name |-> node.name,
     status |-> node_status(node.conditions),
     role |-> IF \E i \in 1..Len(node.labels) : node.labels[i] \in RoleLabels
                THEN "control-plane" ELSE "worker",
     internal_ip |-> node_address(node.addresses, "InternalIP"),
     external_ip |-> node_address(node.addresses, "ExternalIP"),
     conditions |->
        [t \in {node.conditions[i].type : i \in 1..Len(node.conditions)} |->
            node.conditions[Max({i \in 1..Len(node.conditions) :
                                    node.conditions[i].type = t})].status = "True"]]

\* KubernetesService.get_nodes(cluster): the live call numbered throwAt
\* throws (0: none; past the last call: the loop that builds the result).
get_nodes(cluster_arg, throwAt) ==
    LET lk == load_kubeconfig
    IN  IF ~lk.ok
          THEN [raised |-> FALSE, source |-> "demo", cluster |-> None,
                items |-> get_demo_nodes, calls |-> <<>>, lk |-> lk]
        ELSE IF throwAt # 0
          THEN [raised |-> FALSE, source |-> "demo", cluster |-> None,
                items |-> get_demo_nodes, calls |-> <<Call("list_node", <<>>)>>, lk |-> lk]
        ELSE [raised |-> FALSE, source |-> "live", cluster |-> lk.loaded,
              items |-> [i \in 1..Len(LiveNodes(lk.loaded)) |->
                            node_info(LiveNodes(lk.loaded)[i])],
              calls |-> <<Call("list_node", <<>>)>>, lk |-> lk]

Sum(s) == LET RECURSIVE go(_)
              go(i) == IF i = 0 THEN 0 ELSE s[i] + go(i - 1)
          IN  go(Len(s))

\* schemas.PodPhase: the values of the enumeration.
PodPhase == {"Pending", "Running", "Succeeded", "Failed", "Unknown"}

\* get_pods with the restart override at 5 restarts instead of above 5.
pod_info_warns_at_five(pod) ==
    LET total_restarts == Sum(pod.restarts)
        phase == IF pod.phase = None THEN "Unknown" ELSE pod.phase
        status == IF phase = "Running" THEN "healthy"
                  ELSE IF phase = "Pending" THEN "pending"
                  ELSE IF phase = "Failed" THEN "error"
                  ELSE IF phase = "Succeeded" THEN "healthy"
                  ELSE "unknown"
    IN  [name |-> pod.name, namespace |-> pod.namespace, phase |-> phase,
         status |-> IF total_restarts >= 5 THEN "warning" ELSE status,
         node_name |-> pod.node_name, restart_count |-> total_restarts]

\* get_pods, the PodInfo built from one raw pod whose phase is a PodPhase.
pod_info(pod) ==
    LET total_restarts == Sum(pod.restarts)
        phase == IF pod.phase = None THEN "Unknown" ELSE pod.phase
        status == IF phase = "Running" THEN "healthy"
                  ELSE IF phase = "Pending" THEN "pending"
                  ELSE IF phase = "Failed" THEN "error"
                  ELSE IF phase = "Succeeded" THEN "healthy"
                  ELSE "unknown"
    IN  [name |-> pod.name, namespace |-> pod.namespace, phase |-> phase,
         status |-> IF total_restarts > 5 THEN "warning" ELSE status,
         node_name |-> pod.node_name, restart_count |-> total_restarts]

\* CoreV1Api.list_namespaced_pod(namespace).items
LiveNamespacedPods(cid, namespace) ==
    SelectSeq(LivePods(cid), LAMBDA p : p.namespace = namespace)

\* KubernetesService.get_pods(namespace, cluster)
get_pods(namespace, cluster_arg, throwAt) ==
    LET lk == load_kubeconfig
        call == IF namespace # None THEN Call("list_namespaced_pod", <<namespace>>)
                ELSE Call("list_pod_for_all_namespaces", <<>>)
        pods == IF namespace # None THEN LiveNamespacedPods(lk.loaded, namespace)
                ELSE LivePods(lk.loaded)
        phase_error == \E i \in 1..Len(pods) :
                          pods[i].phase # None /\ pods[i].phase \notin PodPhase
    IN  IF ~lk.ok
          THEN [raised |-> FALSE, source |-> "demo", cluster |-> None,
                items |-> get_demo_pods, calls |-> <<>>, lk |-> lk]
        ELSE IF throwAt # 0 \/ phase_error
          THEN [raised |-> FALSE, source |-> "demo", cluster |-> None,
                items |-> get_demo_pods, calls |-> <<call>>, lk |-> lk]
        ELSE [raised |-> FALSE, source |-> "live", cluster |-> lk.loaded,
              items |-> [i \in 1..Len(pods) |-> pod_info(pods[i])],
              calls |-> <<call>>, lk |-> lk]

\* AppsV1Api.list_deployment_for_all_namespaces().items: the raw deployments.
LiveDeployments(cid) ==
    [i \in 1..Len(DeploymentTable) |->
        [name |-> DeploymentTable[i].name,
         namespace |-> DeploymentTable[i].namespace,
         image |-> DeploymentTable[i].image,
         replicas |-> cluster[cid].deployments[DeploymentTable[i].name].replicas,
         restartedAt |-> cluster[cid].deployments[DeploymentTable[i].name].restartedAt]]

\* AppsV1Api.list_namespaced_deployment(namespace).items
LiveNamespacedDeployments(cid, namespace) ==
    SelectSeq(LiveDeployments(cid), LAMBDA d : d.namespace = namespace)

\* CoreV1Api.list_namespaced_service(namespace).items: how many there are.
LiveServiceCount(cid, namespace) == IF namespace = "default" THEN 2 ELSE 1

\* The live calls get_namespaces issues when none throws.
namespace_calls(cid) ==
    LET RECURSIVE go(_)
        go(i) == IF i = 0 THEN <<Call("list_namespace", <<>>)>>
                 ELSE LET ns == LiveNamespaces(cid)[i].name
                      IN  go(i - 1) \o << Call("list_namespaced_pod", <<ns>>),
                                          Call("list_namespaced_deployment", <<ns>>),
                                          Call("list_namespaced_service", <<ns>>) >>
    IN  go(Len(LiveNamespaces(cid)))

\* get_namespaces without its except clause: a throwing call propagates.
get_namespaces_unguarded(cluster_arg, throwAt) ==
    LET lk == load_kubeconfig
    IN  [raised |-> lk.ok /\ throwAt # 0, source |-> "demo", cluster |-> None,
         items |-> get_demo_namespaces, calls |-> <<>>, lk |-> lk]

\* KubernetesService.get_namespaces(cluster)
get_namespaces(cluster_arg, throwAt) ==
    LET lk == load_kubeconfig
        all == namespace_calls(lk.loaded)
    IN  IF ~lk.ok
          THEN [raised |-> FALSE, source |-> "demo", cluster |-> None,
                items |-> get_demo_namespaces, calls |-> <<>>, lk |-> lk]
        ELSE IF throwAt # 0
          THEN [raised |-> FALSE, source |-> "demo", cluster |-> None,
                items |-> get_demo_namespaces, calls |-> Prefix(all, throwAt),
                lk |-> lk]
        ELSE [raised |-> FALSE, source |-> "live", cluster |-> lk.loaded,
              items |-> [i \in 1..Len(LiveNamespaces(lk.loaded)) |->
                  LET ns == LiveNamespaces(lk.loaded)[i]
                  IN  [name |-> ns.name,
                       status |-> IF ns.phase # "Active" THEN "warning" ELSE "healthy",
                       pod_count |-> Len(LiveNamespacedPods(lk.loaded, ns.name)),
                       deployment_count |->
                           Len(LiveNamespacedDeployments(lk.loaded, ns.name)),
                       service_count |-> LiveServiceCount(lk.loaded, ns.name)]],
              calls |-> all, lk |-> lk]

\* list_deployments, the dict built from one raw deployment.
deployment_info(dep) ==
    [name |-> dep.name, namespace |-> dep.namespace,
     replicas |-> IF dep.replicas = <<>> THEN 0 ELSE dep.replicas[1],
     image |-> dep.image, strategy |-> "RollingUpdate"]

\* KubernetesService.list_deployments(namespace, cluster)
list_deployments(namespace, cluster_arg, throwAt) ==
    LET lk == load_kubeconfig
        call == IF namespace # None
                  THEN Call("list_namespaced_deployment", <<namespace>>)
                  ELSE Call("list_deployment_for_all_namespaces", <<>>)
        deps == IF namespace # None
                  THEN LiveNamespacedDeployments(lk.loaded, namespace)
                  ELSE LiveDeployments(lk.loaded)
    IN  IF ~lk.ok
          THEN [raised |-> FALSE, source |-> "demo", cluster |-> None,
                items |-> get_demo_deployments(namespace), calls |-> <<>>,
                lk |-> lk]
        ELSE IF throwAt # 0
          THEN [raised |-> FALSE, source |-> "demo", cluster |-> None,
                items |-> get_demo_deployments(namespace), calls |-> <<call>>,
                lk |-> lk]
        ELSE [raised |-> FALSE, source |-> "live", cluster |-> lk.loaded,
              items |-> [i \in 1..Len(deps) |-> deployment_info(deps[i])],
              calls |-> <<call>>, lk |-> lk]

\* -------------------------------------------------------------- mutations

\* The reasons with which the live API server itself rejects a request.
NotFound == [type |-> "ApiException", reason |-> "Not Found"]
Unprocessable == [type |-> "ApiException", reason |-> "Unprocessable Entity"]

\* The deployment exists in the namespace of the live cluster.
deployment_exists(namespace, name) ==
    \E i \in 1..Len(DeploymentTable) :
        DeploymentTable[i].name = name /\ DeploymentTable[i].namespace = namespace

\* The pod exists in the namespace of live cluster cid.
pod_exists(cid, namespace, name) ==
    \E i \in 1..Len(PodTable) :
        /\ PodTable[i].name = name /\ PodTable[i].namespace = namespace
        /\ name \in cluster[cid].pods

\* The except clauses reporting a fixed text instead of the upstream reason.
failure_message_generic(e) ==
    IF e.type = "ApiException" THEN "API error" ELSE str(e)

\* The except clauses shared by the three mutations: the message of the
\* result for the exception e.
failure_message(e) ==
    IF e.type = "ApiException" THEN "API error: " \o e.reason ELSE str(e)

\* scale_deployment sending the whole deployment instead of a partial patch:
\* the restart annotation is lost.
scale_deployment_replacing_deployment(namespace, name, replicas, throwAt, exc) ==
    LET lk == load_kubeconfig
        cid == lk.loaded
        read == Call("read_namespaced_deployment", <<name, namespace>>)
        patch == Call("patch_namespaced_deployment",
                      <<name, namespace, [replicas |-> replicas]>>)
        read_exc == IF throwAt = 1 THEN exc
                    ELSE IF ~deployment_exists(namespace, name) THEN NotFound
                    ELSE NoException
        patch_exc == IF throwAt = 2 THEN exc
                     ELSE IF replicas < 0 THEN Unprocessable
                     ELSE NoException
        failed(e) == [success |-> FALSE, namespace |-> namespace,
                      deployment |-> name, previous_replicas |-> 0,
                      current_replicas |-> 0, message |-> failure_message(e)]
    IN  IF ~lk.ok
          THEN [ret |-> [success |-> TRUE, namespace |-> namespace,
                         deployment |-> name, previous_replicas |-> 3,
                         current_replicas |-> replicas,
                         message |-> "Demo mode - scale simulated"],
                raised |-> FALSE, calls |-> <<>>, lk |-> lk, cluster |-> cluster]
        ELSE IF read_exc # NoException
          THEN [ret |-> failed(read_exc), raised |-> FALSE, calls |-> <<read>>,
                lk |-> lk, cluster |-> cluster]
        ELSE IF patch_exc # NoException
          THEN [ret |-> failed(patch_exc), raised |-> FALSE,
                calls |-> <<read, patch>>, lk |-> lk, cluster |-> cluster]
        ELSE LET spec_replicas == cluster[cid].deployments[name].replicas
                 previous_replicas == IF spec_replicas = <<>> THEN 0
                                      ELSE spec_replicas[1]
             IN  [ret |-> [success |-> TRUE, namespace |-> namespace,
                           deployment |-> name,
                           previous_replicas |-> previous_replicas,
                           current_replicas |-> replicas,
                           message |-> "Scaled from " \o ToString(previous_replicas)
                                       \o " to " \o ToString(replicas) \o " replicas"],
                  raised |-> FALSE, calls |-> <<read, patch>>, lk |-> lk,
                  cluster |-> [cluster EXCEPT
                                  ![cid].deployments[name] =
                                      [replicas |-> <<replicas>>, restartedAt |-> 0]]]

\* KubernetesService.scale_deployment(namespace, name, replicas): the result,
\* the live calls and the cluster it leaves.  The live call numbered throwAt
\* throws exc (0: none); the server throws on its own for a deployment it
\* does not have and for a negative replica count.
scale_deployment(namespace, name, replicas, throwAt, exc) ==
    LET lk == load_kubeconfig
        cid == lk.loaded
        read == Call("read_namespaced_deployment", <<name, namespace>>)
        patch == Call("patch_namespaced_deployment",
                      <<name, namespace, [replicas |-> replicas]>>)
        read_exc == IF throwAt = 1 THEN exc
                    ELSE IF ~deployment_exists(namespace, name) THEN NotFound
                    ELSE NoException
        patch_exc == IF throwAt = 2 THEN exc
                     ELSE IF replicas < 0 THEN Unprocessable
                     ELSE NoException
        failed(e) == [success |-> FALSE, namespace |-> namespace,
                      deployment |-> name, previous_replicas |-> 0,
                      current_replicas |-> 0, message |-> failure_message(e)]
    IN  IF ~lk.ok
          THEN [ret |-> [success |-> TRUE, namespace |-> namespace,
                         deployment |-> name, previous_replicas |-> 3,
                         current_replicas |-> replicas,
                         message |-> "Demo mode - scale simulated"],
                raised |-> FALSE, calls |-> <<>>, lk |-> lk, cluster |-> cluster]
        ELSE IF read_exc # NoException
          THEN [ret |-> failed(read_exc), raised |-> FALSE, calls |-> <<read>>,
                lk |-> lk, cluster |-> cluster]
        ELSE IF patch_exc # NoException
          THEN [ret |-> failed(patch_exc), raised |-> FALSE,
                calls |-> <<read, patch>>, lk |-> lk, cluster |-> cluster]
        ELSE LET spec_replicas == cluster[cid].deployments[name].replicas
                 previous_replicas == IF spec_replicas = <<>> THEN 0
                                      ELSE spec_replicas[1]
             IN  [ret |-> [success |-> TRUE, namespace |-> namespace,
                           deployment |-> name,
                           previous_replicas |-> previous_replicas,
                           current_replicas |-> replicas,
                           message |-> "Scaled from " \o ToString(previous_replicas)
                                       \o " to " \o ToString(replicas) \o " replicas"],
                  raised |-> FALSE, calls |-> <<read, patch>>, lk |-> lk,
                  cluster |-> [cluster EXCEPT
                                  ![cid].deployments[name].replicas = <<replicas>>]]

\* KubernetesService.restart_deployment(namespace, name) at time `now`
restart_deployment(namespace, name, now, throwAt, exc) ==
    LET lk == load_kubeconfig
        cid == lk.loaded
        patch == Call("patch_namespaced_deployment",
                      <<name, namespace, [restartedAt |-> now]>>)
        patch_exc == IF throwAt = 1 THEN exc
                     ELSE IF ~deployment_exists(namespace, name) THEN NotFound
                     ELSE NoException
    IN  IF ~lk.ok
          THEN [ret |-> [success |-> TRUE, namespace |-> namespace,
                         deployment |-> name,
                         message |-> "Demo mode - restart simulated"],
                raised |-> FALSE, calls |-> <<>>, lk |-> lk, cluster |-> cluster]
        ELSE IF patch_exc # NoException
          THEN [ret |-> [success |-> FALSE, namespace |-> namespace,
                         deployment |-> name,
                         message |-> failure_message(patch_exc)],
                raised |-> FALSE, calls |-> <<patch>>, lk |-> lk,
                cluster |-> cluster]
        ELSE [ret |-> [success |-> TRUE, namespace |-> namespace,
                       deployment |-> name,
                       message |-> "Deployment restart initiated at "
                                   \o ToString(now)],
              raised |-> FALSE, calls |-> <<patch>>, lk |-> lk,
              cluster |-> [cluster EXCEPT
                              ![cid].deployments[name].restartedAt = now]]

\* delete_pod reporting the resolver's failure instead of simulating success.
delete_pod_without_simulation(namespace, name, throwAt, exc) ==
    [ret |-> [success |-> load_kubeconfig.ok /\ throwAt = 0,
              namespace |-> namespace, pod |-> name,
              message |-> IF load_kubeconfig.ok THEN "Pod deleted"
                          ELSE load_kubeconfig.error],
     raised |-> FALSE, calls |-> <<>>, lk |-> load_kubeconfig, cluster |-> cluster]

\* KubernetesService.delete_pod(namespace, name)
delete_pod(namespace, name, throwAt, exc) ==
    LET lk == load_kubeconfig
        cid == lk.loaded
        delete == Call("delete_namespaced_pod", <<name, namespace>>)
        delete_exc == IF throwAt = 1 THEN exc
                      ELSE IF ~pod_exists(cid, namespace, name) THEN NotFound
                      ELSE NoException
    IN  IF ~lk.ok
          THEN [ret |-> [success |-> TRUE, namespace |-> namespace, pod |-> name,
                         message |-> "Demo mode - delete simulated"],
                raised |-> FALSE, calls |-> <<>>, lk |-> lk, cluster |-> cluster]
        ELSE IF delete_exc # NoException
          THEN [ret |-> [success |-> FALSE, namespace |-> namespace, pod |-> name,
                         message |-> failure_message(delete_exc)],
                raised |-> FALSE, calls |-> <<delete>>, lk |-> lk,
                cluster |-> cluster]
        ELSE [ret |-> [success |-> TRUE, namespace |-> namespace, pod |-> name,
                       message |-> "Pod " \o name \o " deleted successfully"],
              raised |-> FALSE, calls |-> <<delete>>, lk |-> lk,
              cluster |-> [cluster EXCEPT ![cid].pods = @ \ {name}]]

\* ------------------------------------------------------ multi-cluster registry

\* KubernetesService._get_cluster_info(context, kubeconfig_path); `thrown` is
\* the exception one of its live calls throws, or NoException.
get_cluster_info(context, thrown) ==
    IF thrown = NoException
      THEN [name |-> context, context |-> context, status |-> "connected",
            version |-> "1.29",
            node_count |-> Len(LiveNodes(context)),
            namespace_count |-> Len(LiveNamespaces(context)),
            pod_count |-> Len(LivePods(context)),
            error |-> None]
      ELSE [name |-> context, context |-> context, status |-> "error",
            version |-> None, node_count |-> 0, namespace_count |-> 0,
            pod_count |-> 0, error |-> str(thrown)]

\* The entries get_clusters builds in its loop over the file's contexts:
\* F is the set of contexts whose live lookup throws exc.
cluster_entries(F, exc) ==
    [i \in 1..Len(kubefile.contexts) |->
        LET ctx == kubefile.contexts[i]
            info == get_cluster_info(ctx.name, IF ctx.name \in F THEN exc ELSE NoException)
        IN  [info EXCEPT !.name = ctx.cluster, !.context = ctx.name]]

\* get_clusters returning what it enumerated when no file is found.
get_clusters_empty_without_file(F, exc) ==
    IF ~k8s_available THEN get_demo_clusters
    ELSE IF kubeconfig_path = None \/ kubeconfig_path \notin fs THEN <<>>
    ELSE IF ~list_kube_config_contexts_ok THEN get_demo_clusters
    ELSE LET clusters == cluster_entries(F, exc)
         IN  IF clusters # <<>> THEN clusters ELSE get_demo_clusters

\* get_clusters without the final `if clusters else` fallback.
get_clusters_without_empty_check(F, exc) ==
    IF ~k8s_available THEN get_demo_clusters
    ELSE IF kubeconfig_path = None \/ kubeconfig_path \notin fs THEN get_demo_clusters
    ELSE IF ~list_kube_config_contexts_ok THEN get_demo_clusters
    ELSE cluster_entries(F, exc)

\* get_clusters over a _get_cluster_info that lets its exception escape to
\* the except clause of get_clusters.
get_clusters_without_isolation(F, exc) ==
    IF ~k8s_available THEN get_demo_clusters
    ELSE IF kubeconfig_path = None \/ kubeconfig_path \notin fs THEN get_demo_clusters
    ELSE IF ~list_kube_config_contexts_ok THEN get_demo_clusters
    ELSE IF F # {} THEN get_demo_clusters
    ELSE LET clusters == cluster_entries(F, exc)
         IN  IF clusters # <<>> THEN clusters ELSE get_demo_clusters

\* KubernetesService.get_clusters
get_clusters(F, exc) ==
    IF ~k8s_available THEN get_demo_clusters
    ELSE IF kubeconfig_path = None \/ kubeconfig_path \notin fs THEN get_demo_clusters
    ELSE IF ~list_kube_config_contexts_ok THEN get_demo_clusters
    ELSE LET clusters == cluster_entries(F, exc)
         IN  IF clusters # <<>> THEN clusters ELSE get_demo_clusters

\* Whether get_clusters reaches its loop, where it loads each context.
get_clusters_enumerates ==
    /\ k8s_available
    /\ kubeconfig_path # None /\ kubeconfig_path \in fs
    /\ list_kube_config_contexts_ok

\* The library's default configuration after get_clusters(F, exc) whose
\* failures are thrown by the call numbered `at` of _get_cluster_info (1 is
\* load_kube_config): the last context whose load_kube_config succeeded.
loaded_after_get_clusters(F, at) ==
    LET ok == {i \in 1..Len(kubefile.contexts) :
                  ~(kubefile.contexts[i].name \in F /\ at = 1)}
    IN  IF get_clusters_enumerates /\ ok # {}
          THEN kubefile.contexts[CHOOSE i \in ok : \A j \in ok : j <= i].name
          ELSE loaded

\* The live calls of one _get_cluster_info that throws at call `at` (0: no throw).
ClusterInfoCalls ==
    << "load_kube_config", "get_code", "list_node", "list_namespace",
       "list_pod_for_all_namespaces" >>

\* ---------------------------------------------------------- quantity strings

\* A quantity string is the sequence of its characters.  The strings of the
\* model are decimal literals and letters: none holds an exponent, an
\* underscore, white space, "inf" or "nan".
Digits == {"0", "1", "2", "3", "4", "5", "6", "7", "8", "9"}

DigitValue(c) ==
    CASE c = "0" -> 0 [] c = "1" -> 1 [] c = "2" -> 2 [] c = "3" -> 3
      [] c = "4" -> 4 [] c = "5" -> 5 [] c = "6" -> 6 [] c = "7" -> 7
      [] c = "8" -> 8 [] c = "9" -> 9

\* The key is not in the dict.
Absent == << "<absent>" >>

\* dict.get(key, default)
get(d, key, default) == IF d[key] = Absent THEN default ELSE d[key]

\* str.isdigit()
isdigit(s) == Len(s) > 0 /\ \A i \in 1..Len(s) : s[i] \in Digits

\* str.endswith(suffix)
endswith(s, suffix) ==
    /\ Len(s) >= Len(suffix)
    /\ SubSeq(s, Len(s) - Len(suffix) + 1, Len(s)) = suffix

\* s[:-k], for a string that ends with a suffix of k characters
strip_suffix(s, k) == SubSeq(s, 1, Len(s) - k)

\* The number a string of digits writes.
digits_value(s) ==
    LET RECURSIVE go(_)
        go(k) == IF k = 0 THEN 0 ELSE 10 * go(k - 1) + DigitValue(s[k])
    IN  go(Len(s))

\* A float is the exact rational n/d in lowest terms, d > 0.
GCD(a, b) ==
    LET RECURSIVE go(_, _)
        go(x, y) == IF y = 0 THEN x ELSE go(y, x % y)
    IN  go(a, b)

Abs(x) == IF x < 0 THEN -x ELSE x

Rat(n, d) ==
    LET g == GCD(Abs(n), Abs(d))
        s == IF d < 0 THEN -1 ELSE 1
    IN  [n |-> s * (n \div g), d |-> s * (d \div g)]

Zero == [n |-> 0, d |-> 1]
Hundred == [n |-> 100, d |-> 1]

RatDiv(a, b) == Rat(a.n * b.d, a.d * b.n)
RatAdd(a, b) == Rat(a.n * b.d + b.n * a.d, a.d * b.d)
RatPositive(a) == a.n > 0

Pow10(k) ==
    LET RECURSIVE go(_)
        go(j) == IF j = 0 THEN 1 ELSE 10 * go(j - 1)
    IN  go(k)

\* Python's int(s): an optional sign and digits; anything else raises
\* ValueError (ok is FALSE).
int(s) ==
    LET signed == Len(s) > 0 /\ s[1] \in {"-", "+"}
        body == IF signed THEN Tail(s) ELSE s
    IN  IF isdigit(body)
          THEN [ok |-> TRUE,
                value |-> IF signed /\ s[1] = "-" THEN -digits_value(body)
                          ELSE digits_value(body)]
          ELSE [ok |-> FALSE, value |-> 0]

\* Python's float(s): an optional sign, digits and at most one point, with at
\* least one digit; anything else raises ValueError (ok is FALSE).
float(s) ==
    LET signed == Len(s) > 0 /\ s[1] \in {"-", "+"}
        body == IF signed THEN Tail(s) ELSE s
        dots == {i \in 1..Len(body) : body[i] = "."}
        digits == SelectSeq(body, LAMBDA c : c \in Digits)
        wellformed == /\ Len(digits) > 0
                      /\ Cardinality(dots) <= 1
                      /\ \A i \in 1..Len(body) : body[i] \in Digits \cup {"."}
        decimals == IF dots = {} THEN 0 ELSE Len(body) - Max(dots)
        magnitude == digits_value(digits)
    IN  IF wellformed
          THEN [ok |-> TRUE,
                value |-> Rat(IF signed /\ s[1] = "-" THEN -magnitude ELSE magnitude,
                              Pow10(decimals))]
          ELSE [ok |-> FALSE, value |-> Zero]

\* float(body) / k
float_over(body, k) ==
    LET f == float(body)
    IN  [ok |-> f.ok, value |-> Rat(f.value.n, f.value.d * k)]

\* "Parse CPU" reading the suffix n as millionths.
cpu_divisor_nano_as_micro(cpu_str) ==
    IF endswith(cpu_str, <<"n">>) THEN 1000000
    ELSE IF endswith(cpu_str, <<"m">>) THEN 1000
    ELSE 1

\* "Parse CPU", the branch taken: the divisor of the suffix n or m, 1 for
\* the branch of no suffix.
cpu_divisor(cpu_str) ==
    IF endswith(cpu_str, <<"n">>) THEN 1000000000
    ELSE IF endswith(cpu_str, <<"m">>) THEN 1000
    ELSE 1

\* get_node_metrics, "Parse CPU": the cores of a usage string, float(
\* cpu_str[:-1]) over the divisor of its suffix, or float(cpu_str).
node_cpu_cores(cpu_str) ==
    LET k == cpu_divisor(cpu_str)
    IN  float_over(IF k = 1 THEN cpu_str ELSE strip_suffix(cpu_str, 1), k)

\* get_pod_metrics, "Parse CPU": the cores one container adds to total_cpu;
\* the branch of no suffix is `float(cpu_str) if cpu_str else 0`.
pod_cpu_cores(cpu_str) ==
    LET k == cpu_divisor(cpu_str)
    IN  IF k = 1 /\ cpu_str = <<>>
          THEN [ok |-> TRUE, value |-> Zero]
          ELSE float_over(IF k = 1 THEN cpu_str ELSE strip_suffix(cpu_str, 1), k)

\* int(body) * k
int_times(body, k) ==
    LET v == int(body)
    IN  [ok |-> v.ok, value |-> v.value * k]

\* "Parse Memory" with decimal units: 1000 for Ki, 1000^2 for Mi, 1000^3 for
\* Gi.
memory_bytes_decimal_units(mem_str, otherwise) ==
    LET k == IF endswith(mem_str, <<"K", "i">>) THEN 1000
             ELSE IF endswith(mem_str, <<"M", "i">>) THEN 1000 * 1000
             ELSE IF endswith(mem_str, <<"G", "i">>) THEN 1000 * 1000 * 1000
             ELSE 1
    IN  IF k = 1 /\ ~isdigit(mem_str)
          THEN [ok |-> TRUE, value |-> otherwise]
          ELSE int_times(IF k = 1 THEN mem_str ELSE strip_suffix(mem_str, 2), k)

\* "Parse Memory" of both metrics functions and of the node capacity: the
\* bytes of a memory string, int(mem_str[:-2]) times the factor k of its
\* suffix Ki, Mi or Gi, or int(mem_str) for a string without suffix (k = 1)
\* that is all digits; a string without suffix that is not all digits gives
\* `otherwise`.
memory_bytes(mem_str, otherwise) ==
    LET k == IF endswith(mem_str, <<"K", "i">>) THEN 1024
             ELSE IF endswith(mem_str, <<"M", "i">>) THEN 1024 * 1024
             ELSE IF endswith(mem_str, <<"G", "i">>) THEN 1024 * 1024 * 1024
             ELSE 1
    IN  IF k = 1 /\ ~isdigit(mem_str)
          THEN [ok |-> TRUE, value |-> otherwise]
          ELSE int_times(IF k = 1 THEN mem_str ELSE strip_suffix(mem_str, 2), k)

\* ------------------------------------------------------ metrics environment

\* The CPU usage strings a metrics sample may carry.
CpuSamples ==
    { <<"1", "5", "0", "0", "m">>,
      <<"2">>,
      <<"5", "0", "0", "0", "0", "0", "0", "0", "0", "n">>,
      <<"8">>,
      <<"-", "1">>,
      <<"a", "b", "c">>,
      <<"x", "m">>,
      <<>>,
      Absent }

\* The memory usage strings a metrics sample may carry.
MemorySamples ==
    { <<"5", "1", "2", "M", "i">>,
      <<"1", "G", "i">>,
      <<"2", "0", "4", "8">>,
      <<"-", "5", "K", "i">>,
      <<"-", "1">>,
      <<"a", "b", "c">>,
      <<"x", "K", "i">>,
      <<"1", ".", "5", "G", "i">>,
      Absent }

\* The usage of a sample all of whose strings are well formed.
BaseUsage == [cpu |-> <<"2", "5", "0", "m">>, memory |-> <<"6", "4", "M", "i">>]

UsageSamples == {[cpu |-> c, memory |-> m] : c \in CpuSamples, m \in MemorySamples}

\* node.status of a node all of whose figures are plain numbers.
BaseNodeStatus ==
    [capacity |-> [cpu |-> <<"4">>, memory |-> <<"1", "G", "i">>],
     allocatable |-> [cpu |-> <<"4">>, memory |-> <<"9", "0", "0", "M", "i">>,
                      pods |-> <<"1", "1", "0">>]]

\* node.status.capacity and node.status.allocatable as the cluster may
\* report them: plain, zero, missing, negative, with a memory string of
\* no known unit, and with CPU figures in millicores.
NodeStatusSamples ==
    { BaseNodeStatus,
      [BaseNodeStatus EXCEPT !.capacity = [cpu |-> <<"0">>, memory |-> <<"0">>]],
      [capacity |-> [cpu |-> Absent, memory |-> Absent],
       allocatable |-> [cpu |-> Absent, memory |-> Absent, pods |-> Absent]],
      [BaseNodeStatus EXCEPT !.capacity = [cpu |-> <<"-", "4">>,
                                           memory |-> <<"-", "1", "K", "i">>]],
      [BaseNodeStatus EXCEPT !.capacity.memory = <<"a", "b", "c">>],
      [BaseNodeStatus EXCEPT !.capacity.cpu = <<"3", "9", "2", "0", "m">>],
      [BaseNodeStatus EXCEPT !.allocatable.cpu = <<"3", "9", "2", "0", "m">>] }

\* What the metrics API and the node objects report when every sample is
\* well formed.
BaseMetricsApi ==
    [installed |-> TRUE, usage |-> BaseUsage, node_status |-> BaseNodeStatus]

\* The usages every node status of the model is met with: below capacity,
\* above capacity, and negative.
NumericUsageSamples ==
    { [cpu |-> <<"1", "5", "0", "0", "m">>, memory |-> <<"5", "1", "2", "M", "i">>],
      [cpu |-> <<"8">>, memory |-> <<"1", "G", "i">>],
      [cpu |-> <<"-", "1">>, memory |-> <<"-", "5", "K", "i">>] }

\* What an installed metrics API and the node objects may report: every
\* usage over the plain node status, and every node status under the
\* numeric usages.
MetricsSamples ==
    [installed : {TRUE}, usage : UsageSamples, node_status : {BaseNodeStatus}]
    \cup
    [installed : {TRUE}, usage : NumericUsageSamples, node_status : NodeStatusSamples]

\* metrics.k8s.io/v1beta1 nodes: the items.  The first is well formed; the
\* second carries the usage the environment chose.
NodeMetricsItems ==
    << [name |-> LiveNodes(None)[1].name, usage |-> BaseUsage],
       [name |-> LiveNodes(None)[2].name, usage |-> metrics_api.usage] >>

\* CoreV1Api.read_node(name).status
read_node(name) ==
    IF name = LiveNodes(None)[1].name THEN BaseNodeStatus ELSE metrics_api.node_status

\* metrics.k8s.io/v1beta1 pods: the items, each with the usage of its
\* containers.  The last container of the first pod carries the usage the
\* environment chose.
PodMetricsItems ==
    << [name |-> PodTable[1].name, namespace |-> PodTable[1].namespace,
        containers |-> << BaseUsage, metrics_api.usage >>],
       [name |-> PodTable[3].name, namespace |-> PodTable[3].namespace,
        containers |-> << [cpu |-> <<"5", "0", "0", "0", "0", "0", "0", "0", "0", "n">>,
                           memory |-> <<"2", "0", "4", "8">>] >>] >>

\* --------------------------------------------------------- metrics adapter

\* switch_context that stores the context before the load is known to have
\* succeeded.
switch_context_stores_first(context) ==
    IF ~k8s_available
      THEN [ok |-> FALSE, error |-> "kubernetes package not installed",
            current |-> current_context, loaded |-> loaded]
    ELSE IF kubeconfig_path = None \/ kubeconfig_path \notin fs
      THEN [ok |-> FALSE, error |-> "No kubeconfig found",
            current |-> current_context, loaded |-> loaded]
    ELSE IF ~load_kube_config_ok(context)
      THEN [ok |-> FALSE, error |-> "Invalid kube-config file",
            current |-> context, loaded |-> loaded]
    ELSE [ok |-> TRUE, error |-> None, current |-> context, loaded |-> context]

\* KubernetesService.switch_context(context): (success, error_message), with
\* the values it leaves in self._current_context and in the library's
\* default configuration.
switch_context(context) ==
    IF ~k8s_available
      THEN [ok |-> FALSE, error |-> "kubernetes package not installed",
            current |-> current_context, loaded |-> loaded]
    ELSE IF kubeconfig_path = None \/ kubeconfig_path \notin fs
      THEN [ok |-> FALSE, error |-> "No kubeconfig found",
            current |-> current_context, loaded |-> loaded]
    ELSE IF ~load_kube_config_ok(context)
      THEN [ok |-> FALSE, error |-> "Invalid kube-config file",
            current |-> current_context, loaded |-> loaded]
    ELSE [ok |-> TRUE, error |-> None, current |-> context, loaded |-> context]

\* `if cluster: self.switch_context(cluster)` and `self._load_kubeconfig()`,
\* the opening of both metrics functions: the result of the resolver and the
\* values the two calls leave in the service.
metrics_resolve(cluster_arg) ==
    LET sw == IF cluster_arg # None THEN switch_context(cluster_arg)
              ELSE [ok |-> FALSE, error |-> None,
                    current |-> current_context, loaded |-> loaded]
        lk == load_kubeconfig
    IN  [ok |-> lk.ok,
         current |-> sw.current,
         active |-> lk.active,
         loaded |-> IF lk.ok THEN lk.loaded ELSE sw.loaded]

\* min(percent, 100) of percent = ratio * 100, for a ratio n/d in lowest
\* terms: 100 when the ratio is 1 or more, the product otherwise.
min_percent_100(ratio) ==
    IF ratio.n >= ratio.d THEN Hundred ELSE Rat(ratio.n * 100, ratio.d)

\* get_node_metrics, the body of the loop for one item of the metrics and
\* the node object read for it: the NodeMetrics built, and whether each
\* group of conversions returned (FALSE: one of them raised ValueError).
node_metrics_entry(item, status, pod_count) ==
    LET cpu_cores == node_cpu_cores(get(item.usage, "cpu", <<"0">>))
        mem_bytes == memory_bytes(get(item.usage, "memory", <<"0">>), 0)
        cpu_capacity == float(get(status.capacity, "cpu", <<"1">>))
        mem_capacity == memory_bytes(get(status.capacity, "memory", <<"0">>), 1)
        cpu_ratio == IF RatPositive(cpu_capacity.value)
                       THEN RatDiv(cpu_cores.value, cpu_capacity.value)
                       ELSE Zero
        mem_ratio == IF mem_capacity.value > 0
                       THEN Rat(mem_bytes.value, mem_capacity.value)
                       ELSE Zero
        pod_capacity == int(get(status.allocatable, "pods", <<"1", "1", "0">>))
        cpu_allocatable == IF status.allocatable.cpu = Absent
                             THEN cpu_capacity
                             ELSE float(status.allocatable.cpu)
    IN  [usage_ok |-> cpu_cores.ok /\ mem_bytes.ok,
         capacity_ok |-> cpu_capacity.ok /\ mem_capacity.ok,
         build_ok |-> pod_capacity.ok /\ cpu_allocatable.ok,
         entry |-> [cpu_usage_percent |-> min_percent_100(cpu_ratio),
                    cpu_capacity_cores |-> cpu_capacity.value,
                    cpu_allocatable_cores |-> cpu_allocatable.value,
                    memory_usage_percent |-> min_percent_100(mem_ratio),
                    memory_capacity_bytes |-> mem_capacity.value,
                    memory_allocatable_bytes |-> mem_capacity.value,
                    pod_count |-> pod_count,
                    pod_capacity |-> pod_capacity.value]]

\* list_pod_for_all_namespaces(field_selector="spec.nodeName=<name>").items
pods_on_node(cid, name) == SelectSeq(LivePods(cid), LAMBDA p : p.node_name = name)

\* get_node_metrics, one turn of the loop: whether it raised, and how many of
\* its two live calls (read_node, list_pod_for_all_namespaces) it issued.
\* The live calls of the function are numbered from 1, the listing of the
\* metrics first; the call numbered throwAt throws.
node_metrics_turn(cid, i, throwAt) ==
    LET item == NodeMetricsItems[i]
        e == node_metrics_entry(item, read_node(item.name),
                                Len(pods_on_node(cid, item.name)))
    IN  IF ~e.usage_ok THEN [raised |-> TRUE, issued |-> 0, entry |-> e.entry]
        ELSE IF throwAt = 2 * i THEN [raised |-> TRUE, issued |-> 1, entry |-> e.entry]
        ELSE IF ~e.capacity_ok THEN [raised |-> TRUE, issued |-> 1, entry |-> e.entry]
        ELSE IF throwAt = 2 * i + 1 THEN [raised |-> TRUE, issued |-> 2, entry |-> e.entry]
        ELSE IF ~e.build_ok THEN [raised |-> TRUE, issued |-> 2, entry |-> e.entry]
        ELSE [raised |-> FALSE, issued |-> 2, entry |-> e.entry]

\* The turns of the loop of get_node_metrics, one per item of the metrics.
node_metrics_turns(cid, throwAt) ==
    [i \in 1..Len(NodeMetricsItems) |-> node_metrics_turn(cid, i, throwAt)]

\* The live calls the loop of get_node_metrics issues up to its turn k.
node_metrics_calls(turns, k) ==
    LET RECURSIVE go(_)
        go(i) ==
            IF i = 0 THEN <<>>
            ELSE go(i - 1) \o
                 Prefix(<< Call("read_node", <<NodeMetricsItems[i].name>>),
                           Call("list_pod_for_all_namespaces",
                                <<NodeMetricsItems[i].name>>) >>,
                        turns[i].issued)
    IN  go(k)

\* An empty dict
EmptyMapping == << >>

\* get_node_metrics after its opening: the dict returned, whether a step
\* failed, the cluster queried, the live calls, and what is left in the
\* service, for the result r of the opening and the turns of the loop.
node_metrics_outcome(r, turns, throwAt) ==
    LET items == NodeMetricsItems
        listing == Call("list_cluster_custom_object", <<"nodes">>)
        raising == {i \in 1..Len(items) : turns[i].raised}
        last == IF raising = {} THEN Len(items)
                ELSE CHOOSE i \in raising : \A j \in raising : i <= j
        names == {items[i].name : i \in 1..Len(items)}
    IN  IF ~r.ok
          THEN [ret |-> EmptyMapping, raised |-> FALSE, failed |-> TRUE,
                cluster |-> None, calls |-> <<>>, r |-> r]
        ELSE IF ~metrics_api.installed \/ throwAt = 1
          THEN [ret |-> EmptyMapping, raised |-> FALSE, failed |-> TRUE,
                cluster |-> r.loaded, calls |-> <<listing>>, r |-> r]
        ELSE [ret |-> IF raising # {} THEN EmptyMapping
                      ELSE [n \in names |->
                              turns[Max({i \in 1..Len(items) : items[i].name = n})].entry],
              raised |-> FALSE, failed |-> raising # {},
              cluster |-> r.loaded,
              calls |-> <<listing>> \o node_metrics_calls(turns, last),
              r |-> r]

\* get_node_metrics after its opening, for the result r of the opening.
node_metrics_fetch(r, throwAt) ==
    node_metrics_outcome(r, node_metrics_turns(r.loaded, throwAt), throwAt)

\* get_node_metrics with the failure policy of the read operations: the
\* metrics of the demo nodes instead of an empty dict.
get_node_metrics_with_demo_fallback(cluster_arg, throwAt) ==
    LET r == metrics_resolve(cluster_arg)
    IN  [ret |-> [n \in {get_demo_nodes[i].name : i \in 1..Len(get_demo_nodes)} |->
                     [cpu_usage_percent |-> Zero, memory_usage_percent |-> Zero]],
         raised |-> FALSE, failed |-> TRUE, cluster |-> None, calls |-> <<>>, r |-> r]

\* KubernetesService.get_node_metrics(cluster)
get_node_metrics(cluster_arg, throwAt) ==
    node_metrics_fetch(metrics_resolve(cluster_arg), throwAt)

\* get_pod_metrics, the body of the loop for one item: the dict built, and
\* whether every conversion returned.
pod_metrics_entry(item) ==
    LET cpu(i) == pod_cpu_cores(get(item.containers[i], "cpu", <<"0">>))
        mem(i) == memory_bytes(get(item.containers[i], "memory", <<"0">>), 0)
        RECURSIVE total_cpu(_)
        total_cpu(k) == IF k = 0 THEN Zero ELSE RatAdd(total_cpu(k - 1), cpu(k).value)
        RECURSIVE total_mem(_)
        total_mem(k) == IF k = 0 THEN 0 ELSE total_mem(k - 1) + mem(k).value
    IN  [ok |-> \A i \in 1..Len(item.containers) : cpu(i).ok /\ mem(i).ok,
         entry |-> [cpu_cores |-> total_cpu(Len(item.containers)),
                    memory_bytes |-> total_mem(Len(item.containers)),
                    containers |-> Len(item.containers)]]

\* f"{pod_ns}/{pod_name}"
pod_key(item) == item.namespace \o "/" \o item.name

\* KubernetesService.get_pod_metrics(namespace, cluster)
get_pod_metrics(namespace, cluster_arg, throwAt) ==
    LET r == metrics_resolve(cluster_arg)
        items == IF namespace # None
                   THEN SelectSeq(PodMetricsItems, LAMBDA p : p.namespace = namespace)
                   ELSE PodMetricsItems
        listing == IF namespace # None
                     THEN Call("list_namespaced_custom_object", <<namespace, "pods">>)
                     ELSE Call("list_cluster_custom_object", <<"pods">>)
        keys == {pod_key(items[i]) : i \in 1..Len(items)}
    IN  IF ~r.ok
          THEN [ret |-> EmptyMapping, raised |-> FALSE, failed |-> TRUE,
                cluster |-> None, calls |-> <<>>, r |-> r]
        ELSE IF ~metrics_api.installed \/ throwAt = 1
                \/ \E i \in 1..Len(items) : ~pod_metrics_entry(items[i]).ok
          THEN [ret |-> EmptyMapping, raised |-> FALSE, failed |-> TRUE,
                cluster |-> r.loaded, calls |-> <<listing>>, r |-> r]
        ELSE [ret |-> [k \in keys |->
                          pod_metrics_entry(
                              items[Max({i \in 1..Len(items) : pod_key(items[i]) = k})]).entry],
              raised |-> FALSE, failed |-> FALSE,
              cluster |-> r.loaded, calls |-> <<listing>>, r |-> r]

\* ------------------------------------------------------------------ init

Init ==
    /\ k8s_available \in BOOLEAN
    /\ active_context = None
    /\ current_context = None
    /\ loaded = None
    /\ kubeconfig_default \in {None, CfgPath}
    /\ fs \in SUBSET {CfgPath, HomePath}
    /\ (kubeconfig_default = None => CfgPath \notin fs)
    /\ incluster \in BOOLEAN
    /\ kubefile \in KubeFiles
    /\ cluster = [c \in ClusterIds |-> InitialCluster]
    /\ metrics_api = BaseMetricsApi
    /\ NoStreams
    /\ NoRangeQuery
    /\ calls = <<>>
    /\ result = [op |-> "none"]

\* ---------------------------------------------------------------- actions

\* list_clusters (route), "Find active cluster": the name of the first
\* connected cluster of the listing, None when none is connected.
active_cluster(clusters) ==
    LET connected == {i \in 1..Len(clusters) : clusters[i].status = "connected"}
    IN  IF connected = {} THEN None
        ELSE clusters[CHOOSE i \in connected : \A j \in connected : i <= j].name

\* GET /kubernetes/clusters: list_clusters over get_clusters.  The contexts in
\* F throw exc at the call numbered `at` of their live lookup.
ListClusters ==
    \E F \in SUBSET ContextNames(kubefile) :
      \E exc \in (IF F = {} THEN {NoException} ELSE Exceptions),
         at \in (IF F = {} THEN {1} ELSE 1..Len(ClusterInfoCalls)) :
      \E clusters \in {get_clusters(F, exc)} :
        /\ result' = [op |-> "ListClusters",
                      request |-> [failing |-> F, exc |-> exc],
                      raised |-> FALSE,
                      clusters |-> clusters,
                      active_cluster |-> active_cluster(clusters)]
        /\ loaded' = loaded_after_get_clusters(F, at)
        /\ calls' = IF get_clusters_enumerates
                      THEN [i \in 1..Len(kubefile.contexts) |->
                               Call("load_kube_config", <<kubefile.contexts[i].name>>)]
                      ELSE <<>>
        /\ UNCHANGED <<active_context, current_context, env_vars, ws_vars, range_query, cluster, metrics_api>>

\* get_cluster answering an unknown name with a not-found failure.
get_cluster_not_found_fails(cluster_name, clusters) ==
    LET hits == {i \in 1..Len(clusters) :
                    clusters[i].name = cluster_name \/ clusters[i].context = cluster_name}
    IN  IF hits # {}
          THEN [raised |-> FALSE,
                ret |-> clusters[CHOOSE i \in hits : \A j \in hits : i <= j]]
          ELSE [raised |-> TRUE,
                ret |-> [name |-> cluster_name, context |-> cluster_name,
                         status |-> "disconnected", version |-> None,
                         node_count |-> 0, namespace_count |-> 0, pod_count |-> 0,
                         error |-> None]]

\* get_cluster (route), after service.get_clusters() returned `clusters`:
\* the first entry whose name or context is cluster_name, else a
\* disconnected ClusterInfo built from the name.
get_cluster(cluster_name, clusters) ==
    LET hits == {i \in 1..Len(clusters) :
                    clusters[i].name = cluster_name \/ clusters[i].context = cluster_name}
    IN  IF hits # {}
          THEN [raised |-> FALSE,
                ret |-> clusters[CHOOSE i \in hits : \A j \in hits : i <= j]]
          ELSE [raised |-> FALSE,
                ret |-> [name |-> cluster_name, context |-> cluster_name,
                         status |-> "disconnected", version |-> None,
                         node_count |-> 0, namespace_count |-> 0, pod_count |-> 0,
                         error |-> "Cluster '" \o cluster_name
                                      \o "' not found in configuration"]]

\* The values a request gives the cluster_name path parameter.
ClusterNameArgs ==
    {ContextTable[1].cluster, ContextTable[2].name, get_demo_clusters[1].name,
     get_demo_clusters[2].context, "nonexistent-cluster"}

\* The sets of contexts whose live lookup fails during a cluster detail
\* request: none, one, or all of them.
FailingArgs ==
    {{}} \cup {{n} : n \in ContextNames(kubefile)} \cup {ContextNames(kubefile)}

\* GET /kubernetes/clusters/{cluster_name}: get_cluster over get_clusters
GetCluster ==
    \E cluster_name \in ClusterNameArgs, F \in FailingArgs :
      \E exc \in (IF F = {} THEN {NoException} ELSE Exceptions),
         at \in (IF F = {} THEN {1} ELSE 1..2) :
        \E clusters \in {get_clusters(F, exc)} :
        \E out \in {get_cluster(cluster_name, clusters)} :
            /\ result' = [op |-> "GetCluster",
                          request |-> [cluster_name |-> cluster_name,
                                       failing |-> F, exc |-> exc],
                          raised |-> out.raised,
                          clusters |-> clusters,
                          ret |-> out.ret]
            /\ loaded' = loaded_after_get_clusters(F, at)
            /\ calls' = IF get_clusters_enumerates
                          THEN [i \in 1..Len(kubefile.contexts) |->
                                   Call("load_kube_config", <<kubefile.contexts[i].name>>)]
                          ELSE <<>>
            /\ UNCHANGED <<active_context, current_context, env_vars, ws_vars, range_query, cluster,
                           metrics_api>>

NextClusters == ListClusters \/ GetCluster

\* The service answering cluster listings and cluster detail requests.
ClusterSpec == Init /\ [][NextClusters]_vars

\* One call of _load_kubeconfig: the resolution of the credentials every
\* operation of the service starts with.
LoadKubeconfig ==
    \E lk \in {load_kubeconfig} :
        /\ result' = [op |-> "LoadKubeconfig",
                      request |-> [path |-> kubeconfig_path],
                      raised |-> FALSE,
                      ret |-> [success |-> lk.ok, error |-> lk.error],
                      incluster_tried |-> lk.incluster_tried]
        /\ active_context' = lk.active
        /\ loaded' = lk.loaded
        /\ calls' = IF lk.incluster_tried
                      THEN <<Call("load_incluster_config", <<>>)>>
                    ELSE IF kubeconfig_path \in fs
                      THEN <<Call("load_kube_config", <<kubeconfig_path>>)>>
                    ELSE <<>>
        /\ UNCHANGED <<current_context, env_vars, ws_vars, range_query, cluster, metrics_api>>

\* ------------------------------------------------------ streaming (websocket)

\* ConnectionManager.connect, after websocket.accept()
manager_connect(w) == Append(active_connections, w)

\* A disconnect that drops the most recent connection, whichever it is.
manager_disconnect_last(w) ==
    SubSeq(active_connections, 1, Len(active_connections) - 1)

\* ConnectionManager.disconnect: list.remove of the first occurrence, if any.
manager_disconnect(w) ==
    LET at == {i \in 1..Len(active_connections) : active_connections[i] = w}
    IN  IF at = {} THEN active_connections
        ELSE LET k == CHOOSE i \in at : \A j \in at : i <= j
             IN  SubSeq(active_connections, 1, k - 1)
                   \o SubSeq(active_connections, k + 1, Len(active_connections))

\* ConnectionManager.send_json: websocket.send_json raises once the client
\* is gone, and the exception is logged and swallowed; the socket after it.
send_json(ws) ==
    IF ws.client = "connected" THEN ws
    ELSE [ws EXCEPT !.late = IF @ < MaxLate THEN @ + 1 ELSE @]

\* The endpoints whose handlers stream records.
Endpoints == {"logs", "events"}

\* stream_pod_logs / stream_events up to the stream they choose: the
\* connection is accepted and registered, then service._k8s_available
\* selects the real or the demo stream.
Connect(w) ==
    \E endpoint \in Endpoints :
        /\ websockets[w].pc = "idle"
        /\ active_connections' = manager_connect(w)
        /\ websockets' = [websockets EXCEPT ![w] =
               [client |-> "connected", endpoint |-> endpoint,
                pc |-> IF k8s_available THEN "real_stream" ELSE "demo_start",
                late |-> 0]]
        /\ UNCHANGED <<svc_vars, env_vars, cluster, metrics_api, range_query, calls, result>>

\* The client closes its side of the connection.
ClientDisconnect(w) ==
    /\ websockets[w].client = "connected"
    /\ websockets' = [websockets EXCEPT ![w].client = "disconnected"]
    /\ UNCHANGED <<svc_vars, env_vars, cluster, metrics_api, range_query, active_connections,
                   calls, result>>

\* _stream_real_logs / _stream_real_events, one turn of `for ... in
\* w.stream(...)`: the watch yields an item, which is sent; or it raises and
\* the handler falls back to the demo stream; or it ends, the handler
\* returns and its `finally` unregisters the connection.
StreamReal(w) ==
    \E outcome \in {"item", "raise", "end"} :
        /\ websockets[w].pc = "real_stream"
        /\ websockets' = [websockets EXCEPT ![w] =
               IF outcome = "item"
                 THEN [send_json(@) EXCEPT !.pc =
                          IF websockets[w].endpoint = "logs"
                            THEN "real_check" ELSE "real_stream"]
               ELSE IF outcome = "raise" THEN [@ EXCEPT !.pc = "demo_start"]
               ELSE [@ EXCEPT !.pc = "done"]]
        /\ active_connections' = IF outcome = "end" THEN manager_disconnect(w)
                                 ELSE active_connections
        /\ UNCHANGED <<svc_vars, env_vars, cluster, metrics_api, range_query, calls, result>>

\* _stream_real_logs, the check after each line: receive_text with a
\* timeout.  With the client present it times out or returns a message and
\* the loop goes on; with the client gone it raises, `except Exception`
\* catches it and the handler falls back to the demo stream.
ReceiveCheck(w) ==
    /\ websockets[w].pc = "real_check"
    /\ websockets' = [websockets EXCEPT ![w].pc =
           IF websockets[w].client = "connected" THEN "real_stream"
           ELSE "demo_start"]
    /\ UNCHANGED <<svc_vars, env_vars, cluster, metrics_api, range_query, active_connections,
                   calls, result>>

\* _stream_demo_logs / _stream_demo_events: the info record sent before the
\* loop.
DemoStart(w) ==
    /\ websockets[w].pc = "demo_start"
    /\ websockets' = [websockets EXCEPT ![w] = [send_json(@) EXCEPT !.pc = "demo_loop"]]
    /\ UNCHANGED <<svc_vars, env_vars, cluster, metrics_api, range_query, active_connections,
                   calls, result>>

\* _stream_demo_logs / _stream_demo_events, `while True`: a record is built
\* and sent; nothing in the body raises, so neither `except` breaks the loop.
DemoEmit(w) ==
    /\ websockets[w].pc = "demo_loop"
    /\ websockets' = [websockets EXCEPT ![w] = [send_json(@) EXCEPT !.pc = "demo_sleep"]]
    /\ UNCHANGED <<svc_vars, env_vars, cluster, metrics_api, range_query, active_connections,
                   calls, result>>

\* _stream_demo_logs / _stream_demo_events: asyncio.sleep returns.
DemoSleep(w) ==
    /\ websockets[w].pc = "demo_sleep"
    /\ websockets' = [websockets EXCEPT ![w].pc = "demo_loop"]
    /\ UNCHANGED <<svc_vars, env_vars, cluster, metrics_api, range_query, active_connections,
                   calls, result>>

\* The steps of the handler of one connection.
HandlerStep(w) ==
    StreamReal(w) \/ ReceiveCheck(w) \/ DemoStart(w) \/ DemoEmit(w) \/ DemoSleep(w)

InitStreams ==
    /\ Init
    /\ kubeconfig_default = None
    /\ fs = {}
    /\ kubefile = [loadable |-> FALSE, contexts |-> <<>>, current |-> None]

NextStreams ==
    \E w \in WebSockets :
        \/ Connect(w)
        \/ ClientDisconnect(w)
        \/ StreamReal(w)
        \/ ReceiveCheck(w)
        \/ DemoStart(w)
        \/ DemoEmit(w)
        \/ DemoSleep(w)

\* The stream handlers under the event loop, which runs every handler that
\* can take a step.
StreamSpec ==
    /\ InitStreams
    /\ [][NextStreams]_vars
    /\ \A w \in WebSockets : WF_vars(HandlerStep(w))

\* ConnectionManager.connect when websocket.accept() raises (the client
\* left during the handshake): the append is not reached and the exception
\* leaves the handler before its `try`, so no disconnect runs either.
AcceptFails(w) ==
    /\ websockets[w].pc = "idle"
    /\ websockets' = [websockets EXCEPT ![w] =
           [@ EXCEPT !.client = "disconnected", !.pc = "done"]]
    /\ UNCHANGED <<svc_vars, env_vars, cluster, metrics_api, range_query, active_connections,
                   calls, result>>

\* The server cancels the task of a handler that waits in an `await` (send,
\* receive or sleep).  CancelledError is no Exception: it passes every
\* `except Exception` and `except WebSocketDisconnect` of the stream and of
\* the handler, and the handler's `finally` unregisters the connection.
Cancel(w) ==
    /\ websockets[w].pc \notin {"idle", "done"}
    /\ websockets' = [websockets EXCEPT ![w].pc = "done"]
    /\ active_connections' = manager_disconnect(w)
    /\ UNCHANGED <<svc_vars, env_vars, cluster, metrics_api, range_query, calls, result>>

NextManager ==
    \/ NextStreams
    \/ \E w \in WebSockets : AcceptFails(w)
    \/ \E w \in WebSockets : Cancel(w)

\* The stream handlers and the connection manager, with every way a handler
\* can end.
ManagerSpec == InitStreams /\ [][NextManager]_vars

\* ------------------------------------------- demo range query (prometheus)

\* The step strings a request may carry: seconds, minutes, zero, negative,
\* a body that is no integer, and a string without unit.
StepArgs ==
    { <<"1", "s">>, <<"2", "s">>, <<"0", "s">>, <<"0", "m">>, <<"-", "1", "s">>,
      <<"1", "m">>, <<"x", "s">>, <<"3", "0">> }

\* datetime.min, the instant below which datetime arithmetic raises
\* OverflowError; the model counts seconds from it.
MinTime == 0

\* The spans end - start of a request, in seconds.
SpanArgs == {0, 1, 3, 120}

\* _get_demo_range_result, "Parse step to seconds": int(step[:-1]) times the
\* seconds of the unit s, m or h, 60 for a string without unit; int() raises
\* on a body that is no integer.
step_to_seconds(step) ==
    LET unit == IF endswith(step, <<"s">>) THEN 1
                ELSE IF endswith(step, <<"m">>) THEN 60
                ELSE IF endswith(step, <<"h">>) THEN 3600
                ELSE 0
    IN  IF unit = 0 THEN [ok |-> TRUE, value |-> 60]
        ELSE int_times(strip_suffix(step, 1), unit)

\* GET /integrations/prometheus/query_range with Prometheus not configured:
\* prometheus_query_range, query_range and _get_demo_range_result up to its
\* loop.  A step that does not parse raises and the request fails.
QueryRange ==
    \E start \in MinStart..(MinStart + 1), span \in SpanArgs, step \in StepArgs :
        /\ range_query.pc \notin {"loop", "body"}
        /\ range_query' =
             IF step_to_seconds(step).ok
               THEN [pc |-> "loop", current |-> start, end |-> start + span,
                     step_seconds |-> step_to_seconds(step).value, points |-> 0]
               ELSE [pc |-> "failed", current |-> start, end |-> start + span,
                     step_seconds |-> 0, points |-> 0]
        /\ UNCHANGED <<svc_vars, env_vars, ws_vars, cluster, metrics_api, calls, result>>

\* _get_demo_range_result, the test of `while current <= end` letting the
\* body run.
RangeLoopTurn ==
    /\ range_query.pc = "loop"
    /\ range_query.current <= range_query.end
    /\ range_query' = [range_query EXCEPT !.pc = "body"]
    /\ UNCHANGED <<svc_vars, env_vars, ws_vars, cluster, metrics_api, calls, result>>

\* _get_demo_range_result, the body of the loop: a data point is appended
\* and current advances by the step; the addition raises OverflowError below
\* datetime.min.
RangeLoopBody ==
    /\ range_query.pc = "body"
    /\ range_query' =
         IF range_query.current + range_query.step_seconds < MinTime
           THEN [range_query EXCEPT
                    !.pc = "failed",
                    !.points = IF @ < MaxPoints THEN @ + 1 ELSE @]
           ELSE [range_query EXCEPT
                    !.pc = "loop",
                    !.current = @ + range_query.step_seconds,
                    !.points = IF @ < MaxPoints THEN @ + 1 ELSE @]
    /\ UNCHANGED <<svc_vars, env_vars, ws_vars, cluster, metrics_api, calls, result>>

\* _get_demo_range_result, the loop ends and the matrix series is returned.
RangeLoopExit ==
    /\ range_query.pc = "loop"
    /\ range_query.current > range_query.end
    /\ range_query' = [range_query EXCEPT !.pc = "returned"]
    /\ UNCHANGED <<svc_vars, env_vars, ws_vars, cluster, metrics_api, calls, result>>

NextRangeQuery == QueryRange \/ RangeLoopTurn \/ RangeLoopBody \/ RangeLoopExit

\* The demo range queries, the worker running the loop of a request to its
\* end.
RangeQuerySpec ==
    /\ InitStreams
    /\ [][NextRangeQuery]_vars
    /\ WF_vars(RangeLoopTurn \/ RangeLoopBody \/ RangeLoopExit)

\* The values a request gives the optional `cluster` query parameter.
ClusterArgs == {None, ContextTable[1].name}

\* The values a request gives the optional `namespace` parameter.
NamespaceArgs == {None, "default"}

\* The state a read leaves: the response, the calls, and what
\* _load_kubeconfig stored.
ReadDone(op, request, out) ==
    /\ result' = [op |-> op, request |-> request, raised |-> out.raised,
                  source |-> out.source, cluster |-> out.cluster,
                  items |-> out.items]
    /\ calls' = out.calls
    /\ active_context' = out.lk.active
    /\ loaded' = out.lk.loaded
    /\ UNCHANGED <<current_context, env_vars, ws_vars, range_query, cluster, metrics_api>>

\* GET /kubernetes/nodes: list_nodes over get_nodes
ListNodes ==
    \E c \in ClusterArgs, throwAt \in 0..2 :
        ReadDone("ListNodes",
                 [cluster |-> c, namespace |-> None, throwAt |-> throwAt],
                 get_nodes(c, throwAt))

\* GET /kubernetes/pods and /kubernetes/namespaces/{namespace}/pods: list_pods
\* and list_namespace_pods over get_pods
ListPods ==
    \E ns \in NamespaceArgs, c \in ClusterArgs, throwAt \in 0..2 :
        ReadDone("ListPods",
                 [cluster |-> c, namespace |-> ns, throwAt |-> throwAt],
                 get_pods(ns, c, throwAt))

\* GET /kubernetes/namespaces: list_namespaces over get_namespaces
ListNamespaces ==
    \E c \in ClusterArgs, throwAt \in 0..(2 + 3 * Len(LiveNamespaces(None))) :
        ReadDone("ListNamespaces",
                 [cluster |-> c, namespace |-> None, throwAt |-> throwAt],
                 get_namespaces(c, throwAt))

\* GET /kubernetes/deployments: list_deployments (route) over list_deployments
ListDeployments ==
    \E ns \in NamespaceArgs, c \in ClusterArgs, throwAt \in 0..2 :
        ReadDone("ListDeployments",
                 [cluster |-> c, namespace |-> ns, throwAt |-> throwAt],
                 list_deployments(ns, c, throwAt))

Next ==
    \/ ListClusters
    \/ ListNodes
    \/ ListPods
    \/ ListNamespaces
    \/ ListDeployments

Spec == Init /\ [][Next]_vars

NextResolve == LoadKubeconfig \/ ListNodes \/ ListNamespaces

\* The service resolving its credentials, alone and at the start of reads.
ResolveSpec == Init /\ [][NextResolve]_vars

\* ----------------------------------------------------- mutation operations

\* The exception a call throws when throwAt names one.
Thrown(throwAt) == IF throwAt = 0 THEN {NoException} ELSE Exceptions

\* The deployments a mutation request names: one there is, and one there is
\* not (the other deployment of the cluster is never named).
DeploymentTargets == { <<"default", "web">>, <<"default", "ghost">> }

\* The pods a delete request names.
PodTargets == { <<"default", "web-1">>, <<"default", "ghost">> }

\* The replica counts a scale request carries.
ReplicaInputs == {-1, 0, 100, 150}

\* ScaleRequest: the validation pydantic applies to the body of a scale
\* request (replicas: int).
ScaleRequest_valid(replicas) == replicas \in Int

\* The state a mutation leaves.
MutationDone(op, request, out) ==
    /\ result' = [op |-> op, request |-> request, raised |-> out.raised,
                  ret |-> out.ret]
    /\ calls' = out.calls
    /\ cluster' = out.cluster
    /\ active_context' = out.lk.active
    /\ loaded' = out.lk.loaded
    /\ UNCHANGED <<current_context, env_vars, ws_vars, range_query, metrics_api>>

\* POST /kubernetes/deployments/{namespace}/{name}/scale: scale_deployment
\* (route) over KubernetesService.scale_deployment
ScaleDeployment ==
    \E t \in DeploymentTargets, replicas \in ReplicaInputs, throwAt \in 0..2 :
      \E exc \in Thrown(throwAt) :
        /\ ScaleRequest_valid(replicas)
        /\ MutationDone("ScaleDeployment",
               [namespace |-> t[1], name |-> t[2], replicas |-> replicas,
                throwAt |-> throwAt, exc |-> exc],
               scale_deployment(t[1], t[2], replicas, throwAt, exc))

\* POST /kubernetes/deployments/{namespace}/{name}/restart
RestartDeployment ==
    \E t \in DeploymentTargets, now \in 1..MaxClock, throwAt \in 0..1 :
      \E exc \in Thrown(throwAt) :
        MutationDone("RestartDeployment",
            [namespace |-> t[1], name |-> t[2], now |-> now,
             throwAt |-> throwAt, exc |-> exc],
            restart_deployment(t[1], t[2], now, throwAt, exc))

\* DELETE /kubernetes/pods/{namespace}/{name}
DeletePod ==
    \E t \in PodTargets, throwAt \in 0..1 :
      \E exc \in Thrown(throwAt) :
        MutationDone("DeletePod",
            [namespace |-> t[1], name |-> t[2],
             throwAt |-> throwAt, exc |-> exc],
            delete_pod(t[1], t[2], throwAt, exc))

\* The environments of the mutation runs: every way the resolver fails or
\* succeeds, over an unloadable file and a file of two contexts.
InitMutation ==
    /\ Init
    /\ kubefile \in { f \in KubeFiles :
                        ~f.loadable \/ (Len(f.contexts) = 2 /\ f.current # None) }

NextMutation ==
    \/ ScaleDeployment
    \/ RestartDeployment
    \/ DeletePod

MutationSpec == InitMutation /\ [][NextMutation]_vars

\* ------------------------------------------------------ metrics operations

\* The state a metrics request leaves.
MetricsDone(op, request, out) ==
    /\ result' = [op |-> op, request |-> request, raised |-> out.raised,
                  failed |-> out.failed, cluster |-> out.cluster, ret |-> out.ret]
    /\ calls' = out.calls
    /\ current_context' = out.r.current
    /\ active_context' = out.r.active
    /\ loaded' = out.r.loaded
    /\ UNCHANGED <<env_vars, ws_vars, range_query, cluster, metrics_api>>

\* GET /kubernetes/metrics/nodes: get_node_metrics (route) over
\* KubernetesService.get_node_metrics
GetNodeMetrics ==
    \E c \in ClusterArgs, throwAt \in 0..(1 + 2 * Len(NodeMetricsItems)) :
        MetricsDone("GetNodeMetrics",
                    [cluster |-> c, namespace |-> None, throwAt |-> throwAt],
                    get_node_metrics(c, throwAt))

\* GET /kubernetes/metrics/pods: get_pod_metrics (route) over
\* KubernetesService.get_pod_metrics
GetPodMetrics ==
    \E ns \in NamespaceArgs, c \in ClusterArgs, throwAt \in 0..1 :
        MetricsDone("GetPodMetrics",
                    [cluster |-> c, namespace |-> ns, throwAt |-> throwAt],
                    get_pod_metrics(ns, c, throwAt))

\* The environments of the metrics runs: every way the resolver fails or
\* succeeds with well-formed samples and the metrics API installed or not,
\* and every sample of MetricsSamples over a kubeconfig of two contexts that
\* resolves.
InitMetrics ==
    /\ k8s_available \in BOOLEAN
    /\ active_context = None
    /\ current_context = None
    /\ loaded = None
    /\ kubeconfig_default \in {None, CfgPath}
    /\ fs \in SUBSET {CfgPath, HomePath}
    /\ (kubeconfig_default = None => CfgPath \notin fs)
    /\ incluster \in BOOLEAN
    /\ kubefile \in KubeFiles
    /\ cluster = [c \in ClusterIds |-> InitialCluster]
    /\ metrics_api \in
         [installed : BOOLEAN, usage : {BaseUsage}, node_status : {BaseNodeStatus}]
         \cup MetricsSamples
    /\ (metrics_api \in MetricsSamples
          => /\ k8s_available
             /\ kubeconfig_default = CfgPath
             /\ fs = {CfgPath}
             /\ ~incluster
             /\ kubefile = [loadable |-> TRUE, contexts |-> SubSeq(ContextTable, 1, 2),
                            current |-> ContextTable[2].name])
    /\ NoStreams
    /\ NoRangeQuery
    /\ calls = <<>>
    /\ result = [op |-> "none"]

NextMetrics ==
    \/ GetNodeMetrics
    \/ GetPodMetrics

MetricsSpec == InitMetrics /\ [][NextMetrics]_vars

\* ------------------------------------------------------ context operations

\* KubernetesService.get_current_context()
get_current_context ==
    IF current_context # None THEN current_context
    ELSE IF kubeconfig_path = None \/ kubeconfig_path \notin fs THEN None
    ELSE IF list_kube_config_contexts_ok THEN kubefile.current
    ELSE None

\* The contexts a switch request names: two the table holds and one no
\* kubeconfig file holds.
SwitchArgs == {ContextTable[1].name, ContextTable[2].name, "ctx-unknown"}

\* POST /kubernetes/context: switch_context (route) over
\* KubernetesService.switch_context.  The handler awaits nothing, so the
\* event loop runs it to its end before the next request.
SwitchContext ==
    \E context \in SwitchArgs :
        LET sw == switch_context(context)
        IN  /\ result' = [op |-> "SwitchContext", request |-> [context |-> context],
                          raised |-> FALSE,
                          ret |-> [success |-> sw.ok, context |-> context,
                                   error |-> sw.error]]
            /\ current_context' = sw.current
            /\ loaded' = sw.loaded
            /\ calls' = <<>>
            /\ UNCHANGED <<active_context, env_vars, ws_vars, range_query, cluster, metrics_api>>

\* GET /kubernetes/context: get_current_context (route) over
\* KubernetesService.get_current_context
GetCurrentContext ==
    /\ result' = [op |-> "GetCurrentContext", request |-> [context |-> None],
                  raised |-> FALSE, ret |-> get_current_context]
    /\ calls' = <<>>
    /\ UNCHANGED <<svc_vars, env_vars, ws_vars, range_query, cluster, metrics_api>>

\* The environments of the context runs: every way the resolver fails or
\* succeeds, over an unloadable file and a file of two contexts.
InitContext ==
    /\ Init
    /\ kubefile \in { f \in KubeFiles :
                        ~f.loadable \/ (Len(f.contexts) = 2 /\ f.current # None) }

NextContext ==
    \/ SwitchContext
    \/ GetCurrentContext
    \/ ListNodes
    \/ ListPods
    \/ ListNamespaces
    \/ ListDeployments

ContextSpec == InitContext /\ [][NextContext]_vars

NextRegistry == SwitchContext \/ GetCurrentContext \/ ListClusters

\* The registry: cluster listings between context switches.
RegistrySpec == InitContext /\ [][NextRegistry]_vars

\* ------------------------------------------------------------ pod listings

\* The environments of the pod runs: every way the resolver fails or
\* succeeds, over an unloadable file and a file of two contexts, with the
\* pods of PodTable and none or one of the pods of StrayPodTable running.
InitPods ==
    /\ k8s_available \in BOOLEAN
    /\ active_context = None
    /\ current_context = None
    /\ loaded = None
    /\ kubeconfig_default \in {None, CfgPath}
    /\ fs \in SUBSET {CfgPath, HomePath}
    /\ (kubeconfig_default = None => CfgPath \notin fs)
    /\ incluster \in BOOLEAN
    /\ kubefile \in { f \in KubeFiles :
                        ~f.loadable \/ (Len(f.contexts) = 2 /\ f.current # None) }
    /\ \E stray \in {{}} \cup {{n} : n \in StrayPodNames} :
         cluster = [c \in ClusterIds |->
                      [InitialCluster EXCEPT !.pods = PodNames \cup stray]]
    /\ metrics_api = BaseMetricsApi
    /\ NoStreams
    /\ NoRangeQuery
    /\ calls = <<>>
    /\ result = [op |-> "none"]

NextPods ==
    \/ ListPods
    \/ DeletePod

PodSpec == InitPods /\ [][NextPods]_vars

\* ------------------------------------------------------------------ claims

ReadOps == {"ListNodes", "ListPods", "ListNamespaces", "ListDeployments"}

\* The demo dataset of the resource kind a read operation lists.
DemoDataset(op, namespace) ==
    CASE op = "ListNodes" -> get_demo_nodes
      [] op = "ListPods" -> get_demo_pods
      [] op = "ListNamespaces" -> get_demo_namespaces
      [] op = "ListDeployments" -> get_demo_deployments(namespace)

\* C1: ListNodes, ListPods, ListNamespaces and ListDeployments return the
\* demo dataset of their resource kind, and raise nothing, whenever the
\* client library is absent, the connection does not resolve
\* (_load_kubeconfig fails) or a live call of the operation throws.
C1_ReadsFallBackToDemo ==
    (/\ result.op \in ReadOps
     /\ (~k8s_available \/ ~load_kubeconfig.ok \/ result.request.throwAt # 0))
    => (/\ ~result.raised
        /\ result.source = "demo"
        /\ result.items = DemoDataset(result.op, result.request.namespace))

\* C1 happens: the connection resolved, a counting query of ListNamespaces
\* threw after the namespaces were listed, and the demo namespaces came back.
C1_Witness ==
    /\ result.op = "ListNamespaces"
    /\ load_kubeconfig.ok
    /\ result.request.throwAt = 3
    /\ Len(calls) = 3
    /\ result.items = get_demo_namespaces

\* The two-entry demo set, by content.
IsDemoClusterSet(clusters) ==
    /\ Len(clusters) = 2
    /\ clusters[1].name = "demo-local" /\ clusters[1].status = "connected"
    /\ clusters[2].name = "demo-staging" /\ clusters[2].status = "disconnected"

C3_ClustersNeverEmpty ==
    result.op = "ListClusters"
    => (/\ Len(result.clusters) >= 1
        /\ (get_clusters_enumerates /\ kubefile.contexts = <<>>
               => IsDemoClusterSet(result.clusters)))

\* C3 happens: the file loads and lists no context.
C3_Witness ==
    /\ result.op = "ListClusters"
    /\ get_clusters_enumerates
    /\ kubefile.contexts = <<>>
    /\ Len(result.clusters) = 2

\* C4: when the file lists N >= 1 contexts and the live lookup of the
\* contexts in F throws, ListClusters returns N entries, one per context in
\* file order; an entry has status error, with the reason, exactly when its
\* context is in F, and every other entry is what it is when nothing throws.
C4_PartialFailureIsolation ==
    (/\ result.op = "ListClusters"
     /\ get_clusters_enumerates
     /\ Len(kubefile.contexts) >= 1)
    => (/\ Len(result.clusters) = Len(kubefile.contexts)
        /\ \A i \in 1..Len(kubefile.contexts) :
              LET ctx == kubefile.contexts[i].name
                  e == result.clusters[i]
              IN  /\ e.context = ctx
                  /\ (e.status = "error") <=> (ctx \in result.request.failing)
                  /\ ctx \in result.request.failing
                       => e.error = str(result.request.exc)
                  /\ ctx \notin result.request.failing
                       => /\ e.status = "connected"
                          /\ e.error = None
                          /\ e = cluster_entries({}, NoException)[i])

\* C4 happens: three contexts, the second throws, only it is in error.
C4_Witness ==
    /\ result.op = "ListClusters"
    /\ get_clusters_enumerates
    /\ Len(kubefile.contexts) = 3
    /\ result.request.failing = {kubefile.contexts[2].name}
    /\ result.clusters[1].status = "connected"
    /\ result.clusters[2].status = "error"
    /\ result.clusters[3].status = "connected"


MutationOps == {"ScaleDeployment", "RestartDeployment", "DeletePod"}

\* The message of a simulated mutation.
DemoMessage(op) ==
    CASE op = "ScaleDeployment" -> "Demo mode - scale simulated"
      [] op = "RestartDeployment" -> "Demo mode - restart simulated"
      [] op = "DeletePod" -> "Demo mode - delete simulated"

\* C5: when the resolver fails, ScaleDeployment, RestartDeployment and
\* DeletePod return success=true with a demo-mode message, issue no call to a
\* live cluster, and no cluster is changed.
C5_MutationsSimulatedWithoutCluster ==
    (result.op \in MutationOps /\ ~load_kubeconfig.ok)
    => (/\ ~result.raised
        /\ result.ret.success
        /\ result.ret.message = DemoMessage(result.op)
        /\ calls = <<>>
        /\ cluster = [c \in ClusterIds |-> InitialCluster])

\* C5 happens: a path is configured, the file is missing, a pod is deleted.
C5_Witness ==
    /\ result.op = "DeletePod"
    /\ k8s_available
    /\ kubeconfig_default = CfgPath /\ CfgPath \notin fs
    /\ result.ret.success
    /\ result.ret.message = "Demo mode - delete simulated"

\* The ApiException with which the live cluster rejects the last mutation,
\* NoException when it rejects nothing: the one thrown at the call the
\* request names, else the server's own for an object it does not have or a
\* negative replica count.
Rejection ==
    LET r == result.request
        missing == IF result.op = "DeletePod"
                     THEN r.name \notin PodNames
                     ELSE r.name \notin DeploymentNames
    IN  IF r.throwAt = 1 THEN r.exc
        ELSE IF missing THEN NotFound
        ELSE IF r.throwAt = 2 THEN r.exc
        ELSE IF result.op = "ScaleDeployment" /\ r.replicas < 0 THEN Unprocessable
        ELSE NoException

\* C6: when the resolver succeeds and the live cluster rejects a mutation
\* with an API error, the operation returns success=false carrying the
\* upstream reason, raises nothing, and has issued every live call once only,
\* the rejected one last.
C6_ApiErrorReported ==
    (/\ result.op \in MutationOps
     /\ load_kubeconfig.ok
     /\ Rejection.type = "ApiException")
    => (/\ ~result.raised
        /\ ~result.ret.success
        /\ result.ret.message = "API error: " \o Rejection.reason
        /\ Len(calls) >= 1
        /\ \A i, j \in 1..Len(calls) : calls[i] = calls[j] => i = j
        /\ calls[Len(calls)].api \in {"patch_namespaced_deployment",
                                      "read_namespaced_deployment",
                                      "delete_namespaced_pod"})

\* C6 happens: the patch of a scale is refused by the server (RBAC).
C6_Witness ==
    /\ result.op = "ScaleDeployment"
    /\ load_kubeconfig.ok
    /\ result.request.throwAt = 2
    /\ result.request.exc = [type |-> "ApiException", reason |-> "Forbidden"]
    /\ result.request.name = "web"
    /\ ~result.ret.success
    /\ result.ret.message = "API error: Forbidden"
    /\ Len(calls) = 2

\* C7: no live patch call receives a replica count outside [0,100]: a scale
\* request whose replicas lie outside is rejected before the facade.
C7_ScaleBoundsEnforced ==
    \A i \in 1..Len(calls) :
        (/\ calls[i].api = "patch_namespaced_deployment"
         /\ "replicas" \in DOMAIN calls[i].args[3])
        => calls[i].args[3].replicas \in 0..100

MetricsOps == {"GetNodeMetrics", "GetPodMetrics"}

\* The items the last metrics request listed.
ListedPodItems ==
    IF result.request.namespace # None
      THEN SelectSeq(PodMetricsItems, LAMBDA p : p.namespace = result.request.namespace)
      ELSE PodMetricsItems

\* A conversion of the samples the last metrics request met raises.
SampleRaises ==
    IF result.op = "GetNodeMetrics"
      THEN \E i \in 1..Len(NodeMetricsItems) :
             LET e == node_metrics_entry(NodeMetricsItems[i],
                                         read_node(NodeMetricsItems[i].name), 0)
             IN  ~(e.usage_ok /\ e.capacity_ok /\ e.build_ok)
      ELSE \E i \in 1..Len(ListedPodItems) : ~pod_metrics_entry(ListedPodItems[i]).ok

\* C8: GetNodeMetrics and GetPodMetrics never raise, and return an empty
\* mapping (no demo dataset) whenever the resolver fails, the metrics API is
\* not installed, a live call that was issued throws, or a conversion of a
\* sample raises.
C8_MetricsFailureGivesEmptyMapping ==
    result.op \in MetricsOps =>
        /\ ~result.raised
        /\ (\/ ~load_kubeconfig.ok
            \/ ~metrics_api.installed
            \/ result.request.throwAt \in 1..Len(calls)
            \/ SampleRaises)
           => result.ret = EmptyMapping

\* C8 happens: the resolver succeeds, the metrics API is not installed, and
\* the one call issued leaves an empty mapping.
C8_Witness ==
    /\ result.op = "GetNodeMetrics"
    /\ load_kubeconfig.ok
    /\ ~metrics_api.installed
    /\ Len(calls) = 1
    /\ calls[1].api = "list_cluster_custom_object"
    /\ ~result.raised
    /\ result.ret = EmptyMapping

\* The quantity strings with an unparseable numeric body.
MalformedQuantities ==
    { <<"a", "b", "c">>, <<"x", "m">>, <<"x", "K", "i">>, <<"1", ".", "5", "G", "i">> }

\* C9: a malformed quantity string in one metrics sample does not abort the
\* fetch: when nothing else fails, GetNodeMetrics returns an entry for every
\* node and GetPodMetrics one for every pod listed, and the malformed
\* quantity counts as 0 in the entry of the affected node.
C9_MalformedQuantityParsedToZero ==
    (/\ result.op \in MetricsOps
     /\ load_kubeconfig.ok
     /\ metrics_api.installed
     /\ result.request.throwAt = 0
     /\ metrics_api.node_status = BaseNodeStatus
     /\ \/ metrics_api.usage.cpu \in MalformedQuantities
        \/ metrics_api.usage.memory \in MalformedQuantities)
    => IF result.op = "GetNodeMetrics"
         THEN /\ DOMAIN result.ret =
                    {NodeMetricsItems[i].name : i \in 1..Len(NodeMetricsItems)}
              /\ metrics_api.usage.cpu \in MalformedQuantities
                    => result.ret[NodeMetricsItems[2].name].cpu_usage_percent = Zero
              /\ metrics_api.usage.memory \in MalformedQuantities
                    => result.ret[NodeMetricsItems[2].name].memory_usage_percent = Zero
         ELSE DOMAIN result.ret =
                    {pod_key(ListedPodItems[i]) : i \in 1..Len(ListedPodItems)}

\* A percentage within [0,100]
InPercentRange(q) == q.n >= 0 /\ q.n <= 100 * q.d

\* C10: in every NodeMetrics entry GetNodeMetrics returns, cpu_usage_percent
\* and memory_usage_percent lie in [0,100].
C10_UsagePercentWithinBounds ==
    result.op = "GetNodeMetrics" =>
        \A n \in DOMAIN result.ret :
            /\ InPercentRange(result.ret[n].cpu_usage_percent)
            /\ InPercentRange(result.ret[n].memory_usage_percent)

\* C11: a SwitchContext that succeeds stores its context as the current
\* context; one that fails returns (false, reason) and leaves the current
\* context as it was; no other request of the context runs changes it; and
\* GetCurrentContext returns the stored context once a switch has succeeded.
\* Requests run one after the other, so of two switches the later one wins.
C11_SwitchContextLastWriteWins ==
    [][ /\ (result'.op = "SwitchContext" /\ result'.ret.success)
            => current_context' = result'.request.context
        /\ (result'.op = "SwitchContext" /\ ~result'.ret.success)
            => (current_context' = current_context /\ result'.ret.error # None)
        /\ result'.op # "SwitchContext" => current_context' = current_context
        /\ (result'.op = "GetCurrentContext" /\ current_context # None)
            => result'.ret = current_context ]_vars

\* C11 happens: after a switch away from the file's current-context,
\* GetCurrentContext returns the context switched to.
C11_Witness ==
    /\ result.op = "GetCurrentContext"
    /\ current_context = ContextTable[1].name
    /\ kubefile.current = ContextTable[2].name
    /\ result.ret = ContextTable[1].name

\* C12: after a SwitchContext(c) that succeeded, a live ListNodes, ListPods,
\* ListNamespaces or ListDeployments issued without a cluster argument
\* queries the cluster of context c (in the context runs the current context
\* is the context of the last switch that succeeded).
C12_SwitchRetargetsRequests ==
    (/\ result.op \in ReadOps
     /\ result.request.cluster = None
     /\ result.source = "live"
     /\ current_context # None)
    => result.cluster = current_context

\* C13: a live read called with cluster=c, c a context of the kubeconfig
\* file in use, returns data of the cluster of context c, and data of the
\* active cluster when no cluster is given.
C13_ClusterArgumentSelectsCluster ==
    (/\ result.op \in ReadOps
     /\ result.source = "live"
     /\ \/ result.request.cluster = None
        \/ (kubeconfig_path # None /\ result.request.cluster \in ContextNames(kubefile)))
    => result.cluster = IF result.request.cluster # None
                          THEN result.request.cluster
                          ELSE active_context

\* The raw pods the last ListPods listed.
ListedPods ==
    IF result.request.namespace # None
      THEN LiveNamespacedPods(loaded, result.request.namespace)
      ELSE LivePods(loaded)

\* The status the phase of a pod stands for.
PhaseStatus(phase) ==
    CASE phase \in {"Running", "Succeeded"} -> "healthy"
      [] phase = "Pending" -> "pending"
      [] phase = "Failed" -> "error"
      [] OTHER -> "unknown"

\* C14: a ListPods that resolves and meets no failing call returns, for
\* every live pod, restart_count as the sum of its containers' restart
\* counts and as status warning when that sum is greater than 5, whatever
\* the phase, else the status of its phase: healthy for Running and
\* Succeeded, pending for Pending, error for Failed, unknown for any other.
C14_PodStatusDerivation ==
    (/\ result.op = "ListPods"
     /\ load_kubeconfig.ok
     /\ result.request.throwAt = 0)
    => /\ result.source = "live"
       /\ Len(result.items) = Len(ListedPods)
       /\ \A i \in 1..Len(ListedPods) :
            /\ result.items[i].name = ListedPods[i].name
            /\ result.items[i].restart_count = Sum(ListedPods[i].restarts)
            /\ result.items[i].status =
                 IF Sum(ListedPods[i].restarts) > 5 THEN "warning"
                 ELSE PhaseStatus(ListedPods[i].phase)

\* C14 happens: a live listing holds a Running pod of 6 restarts and a
\* Failed pod of 7 restarts, both as warning.
C14_Witness ==
    /\ result.op = "ListPods"
    /\ result.source = "live"
    /\ \E i \in 1..Len(result.items) :
         /\ result.items[i].name = "web-2"
         /\ result.items[i].phase = "Running"
         /\ result.items[i].restart_count = 6
         /\ result.items[i].status = "warning"
    /\ \E i \in 1..Len(result.items) :
         /\ result.items[i].name = "crash-1"
         /\ result.items[i].phase = "Failed"
         /\ result.items[i].restart_count = 7
         /\ result.items[i].status = "warning"

\* The status the Ready conditions among the conditions of a node stand for.
ReadyStatus(conditions) ==
    LET ready == {c \in Range(conditions) : c.type = "Ready"}
    IN  IF ready = {} THEN "unknown"
        ELSE IF \A c \in ready : c.status = "True" THEN "healthy"
        ELSE "error"

\* C15: in a live ListNodes, the status of every node is healthy when its
\* Ready condition is true, error when it has a Ready condition that is not
\* true, and unknown when it has none, whatever its other conditions are.
C15_NodeStatusFromReadyOnly ==
    (result.op = "ListNodes" /\ result.source = "live")
    => /\ Len(result.items) = Len(LiveNodes(result.cluster))
       /\ \A i \in 1..Len(result.items) :
            /\ result.items[i].name = LiveNodes(result.cluster)[i].name
            /\ result.items[i].status =
                 ReadyStatus(LiveNodes(result.cluster)[i].conditions)

\* C15 happens: a live listing holds a ready node under memory, disk and PID
\* pressure as healthy, a node with pressure conditions and no Ready
\* condition as unknown, and nodes whose Ready is False or Unknown as error.
C15_Witness ==
    /\ result.op = "ListNodes"
    /\ result.source = "live"
    /\ \E i \in 1..Len(result.items) :
         /\ result.items[i].name = "node-4"
         /\ result.items[i].conditions["DiskPressure"]
         /\ result.items[i].conditions["MemoryPressure"]
         /\ result.items[i].status = "healthy"
    /\ \E i \in 1..Len(result.items) :
         /\ result.items[i].name = "node-3"
         /\ result.items[i].conditions["DiskPressure"]
         /\ result.items[i].status = "unknown"
    /\ \E i \in 1..Len(result.items) :
         /\ result.items[i].name = "node-2"
         /\ result.items[i].status = "error"
    /\ \E i \in 1..Len(result.items) :
         /\ result.items[i].name = "node-5"
         /\ result.items[i].status = "error"

\* The entries of a listing whose name or context is the requested name.
Matching(clusters, cluster_name) ==
    {c \in Range(clusters) : c.name = cluster_name \/ c.context = cluster_name}

\* C16: GetClusterDetail never fails; for a name that is neither the name nor
\* the context of an entry of the listing it returns a ClusterInfo of that
\* name with status disconnected and a non-null error, and for a name that
\* matches it returns an entry of the listing with that name or context.
C16_UnknownClusterIsDisconnected ==
    result.op = "GetCluster"
    => /\ ~result.raised
       /\ Matching(result.clusters, result.request.cluster_name) = {}
            => /\ result.ret.name = result.request.cluster_name
               /\ result.ret.status = "disconnected"
               /\ result.ret.error # None
       /\ Matching(result.clusters, result.request.cluster_name) # {}
            => result.ret \in Matching(result.clusters, result.request.cluster_name)

\* C16 happens: a name that no entry of a live listing of two clusters
\* carries is answered with a disconnected ClusterInfo.
C16_Witness ==
    /\ result.op = "GetCluster"
    /\ result.request.cluster_name = "nonexistent-cluster"
    /\ Len(result.clusters) = 2
    /\ result.clusters[1].status = "connected"
    /\ result.clusters[1].context = ContextTable[1].name
    /\ ~result.raised
    /\ result.ret.status = "disconnected"
    /\ result.ret.error # None

\* C17: with the client library present, credentials are resolved in the
\* order configured path, default user-level file, in-cluster credentials,
\* failure.  The path used is the configured one whenever one is configured,
\* else the default file when it exists; a configured path that is missing
\* fails with a reason naming that path and in-cluster credentials are not
\* attempted; in-cluster credentials are attempted exactly when no path is
\* configured and no default file exists, and when they fail too the reason
\* is that no kubeconfig was found and the process is not in-cluster.
C17_ResolutionOrder ==
    (result.op = "LoadKubeconfig" /\ k8s_available)
    => /\ kubeconfig_default # None
            => result.request.path = kubeconfig_default
       /\ (kubeconfig_default = None /\ HomePath \in fs)
            => result.request.path = HomePath
       /\ (kubeconfig_default # None /\ kubeconfig_default \notin fs)
            => /\ ~result.ret.success
               /\ result.ret.error = "Kubeconfig not found at " \o kubeconfig_default
               /\ ~result.incluster_tried
               /\ \A i \in 1..Len(calls) : calls[i].api # "load_incluster_config"
       /\ result.incluster_tried
            <=> (kubeconfig_default = None /\ HomePath \notin fs)
       /\ result.incluster_tried
            => /\ result.ret.success <=> incluster
               /\ ~incluster
                    => result.ret.error
                         = "No kubeconfig found and not running in-cluster"
       /\ (result.ret.success /\ ~result.incluster_tried)
            => result.request.path \in fs

\* C17 happens: a path is configured and missing while the default file
\* exists and the process runs in a cluster, and the resolution fails on the
\* configured path.
C17_Witness ==
    /\ result.op = "LoadKubeconfig"
    /\ k8s_available
    /\ kubeconfig_default # None
    /\ kubeconfig_default \notin fs
    /\ HomePath \in fs
    /\ incluster
    /\ ~result.ret.success
    /\ ~result.incluster_tried

\* C18: once the client of a streaming connection has disconnected, the
\* stream loop of its handler eventually stops, so that no further record is
\* emitted to the connection, and the connection is no longer among the
\* active connections.
C18_StreamStopsAfterDisconnect ==
    \A w \in WebSockets :
        (websockets[w].client = "disconnected")
        ~> (/\ websockets[w].pc = "done"
            /\ w \notin Range(active_connections))

\* C19: a ListPods with a namespace returns only pods of that namespace,
\* from the live cluster and from the demo fallback alike; a ListPods
\* without a namespace returns the pods of all namespaces.
C19_PodsScopedToNamespace ==
    result.op = "ListPods"
    => /\ result.request.namespace # None
            => \A i \in 1..Len(result.items) :
                   result.items[i].namespace = result.request.namespace
       /\ (result.request.namespace = None /\ result.source = "live")
            => {result.items[i].name : i \in 1..Len(result.items)}
                 = cluster[result.cluster].pods

\* CPU quantity strings with a numeric body, the cores they stand for (body
\* over 1e9 for n, over 1000 for m, the body itself without suffix) and the
\* percentage those cores are of the 4 cores of the plain node status,
\* capped at 100.
CpuExpectations ==
    { [cpu |-> <<"1", "5", "0", "0", "m">>, cores |-> Rat(3, 2), percent |-> Rat(75, 2)],
      [cpu |-> <<"2">>, cores |-> Rat(2, 1), percent |-> Rat(50, 1)],
      [cpu |-> <<"5", "0", "0", "0", "0", "0", "0", "0", "0", "n">>,
       cores |-> Rat(1, 2), percent |-> Rat(25, 2)],
      [cpu |-> <<"8">>, cores |-> Rat(8, 1), percent |-> Rat(100, 1)],
      [cpu |-> <<"-", "1">>, cores |-> Rat(-1, 1), percent |-> Rat(-25, 1)] }

\* Memory usage strings that parse.
ParsableMemory ==
    { <<"5", "1", "2", "M", "i">>, <<"1", "G", "i">>, <<"2", "0", "4", "8">>,
      <<"6", "4", "M", "i">> }

\* C20: a CPU quantity with a numeric body v counts as v/1e9 cores with the
\* suffix n, v/1000 with the suffix m and v without suffix ("1500m" is 1.5,
\* "2" is 2.0, "500000000n" is 0.5), in the node metrics (seen in the usage
\* percentage of a node of 4 cores) and in the pod metrics (seen in the sum
\* over the containers, the other container using 250m) alike.
C20_CpuQuantityParsing ==
    \A e \in CpuExpectations :
        (/\ result.op \in MetricsOps
         /\ load_kubeconfig.ok
         /\ metrics_api.installed
         /\ result.request.throwAt = 0
         /\ metrics_api.node_status = BaseNodeStatus
         /\ metrics_api.usage.cpu = e.cpu
         /\ metrics_api.usage.memory \in ParsableMemory)
        => IF result.op = "GetNodeMetrics"
             THEN /\ NodeMetricsItems[2].name \in DOMAIN result.ret
                  /\ result.ret[NodeMetricsItems[2].name].cpu_usage_percent = e.percent
                  /\ result.ret[NodeMetricsItems[1].name].cpu_usage_percent = Rat(25, 4)
             ELSE \A i \in 1..Len(ListedPodItems) :
                    /\ pod_key(ListedPodItems[i]) \in DOMAIN result.ret
                    /\ result.ret[pod_key(ListedPodItems[i])].cpu_cores =
                         IF ListedPodItems[i].name = PodMetricsItems[1].name
                           THEN RatAdd(Rat(1, 4), e.cores)
                           ELSE Rat(1, 2)

\* C20 happens: a pod metrics fetch over all namespaces sums 250m and 1500m
\* to 1.75 cores for one pod and reads 500000000n as 0.5 cores for another.
C20_Witness ==
    /\ result.op = "GetPodMetrics"
    /\ result.request.namespace = None
    /\ metrics_api.usage.cpu = <<"1", "5", "0", "0", "m">>
    /\ pod_key(PodMetricsItems[1]) \in DOMAIN result.ret
    /\ result.ret[pod_key(PodMetricsItems[1])].cpu_cores = Rat(7, 4)
    /\ result.ret[pod_key(PodMetricsItems[2])].cpu_cores = Rat(1, 2)

\* Memory quantity strings with an integer body or without a recognised
\* suffix, the bytes they stand for (body times 1024 for Ki, 1024^2 for Mi,
\* 1024^3 for Gi, the body itself for an all-digit string, 0 for a string
\* without suffix that is not all digits) and the percentage those bytes are
\* of the 1Gi of the plain node status, capped at 100.
MemoryExpectations ==
    { [memory |-> <<"5", "1", "2", "M", "i">>, bytes |-> 536870912, percent |-> Rat(50, 1)],
      [memory |-> <<"1", "G", "i">>, bytes |-> 1073741824, percent |-> Rat(100, 1)],
      [memory |-> <<"2", "0", "4", "8">>, bytes |-> 2048, percent |-> Rat(25, 131072)],
      [memory |-> <<"-", "5", "K", "i">>, bytes |-> -5120, percent |-> Rat(-125, 262144)],
      [memory |-> <<"-", "1">>, bytes |-> 0, percent |-> Rat(0, 1)],
      [memory |-> <<"a", "b", "c">>, bytes |-> 0, percent |-> Rat(0, 1)] }

\* C21: a memory quantity with an integer body v counts as v*1024 bytes with
\* the suffix Ki, v*1024^2 with Mi, v*1024^3 with Gi and v for an all-digit
\* string, and a string without a recognised suffix that is not all digits
\* counts as 0 ("1Gi" is 1073741824, "512Mi" is 536870912, "2048" is 2048),
\* in the node metrics (seen in the usage percentage of a node of 1Gi) and
\* in the pod metrics (seen in the sum over the containers, the other
\* container using 64Mi).
C21_MemoryQuantityParsing ==
    \A e \in MemoryExpectations :
        (/\ result.op \in MetricsOps
         /\ load_kubeconfig.ok
         /\ metrics_api.installed
         /\ result.request.throwAt = 0
         /\ metrics_api.node_status = BaseNodeStatus
         /\ metrics_api.usage.memory = e.memory
         /\ metrics_api.usage.cpu \in {x.cpu : x \in CpuExpectations})
        => IF result.op = "GetNodeMetrics"
             THEN /\ NodeMetricsItems[2].name \in DOMAIN result.ret
                  /\ result.ret[NodeMetricsItems[2].name].memory_usage_percent = e.percent
                  /\ result.ret[NodeMetricsItems[1].name].memory_usage_percent = Rat(25, 4)
             ELSE \A i \in 1..Len(ListedPodItems) :
                    /\ pod_key(ListedPodItems[i]) \in DOMAIN result.ret
                    /\ result.ret[pod_key(ListedPodItems[i])].memory_bytes =
                         IF ListedPodItems[i].name = PodMetricsItems[1].name
                           THEN 67108864 + e.bytes
                           ELSE 2048

\* C21 happens: a pod metrics fetch over all namespaces sums 64Mi and 1Gi to
\* 1140850688 bytes for one pod and reads 2048 as 2048 bytes for another.
C21_Witness ==
    /\ result.op = "GetPodMetrics"
    /\ result.request.namespace = None
    /\ metrics_api.usage.memory = <<"1", "G", "i">>
    /\ pod_key(PodMetricsItems[1]) \in DOMAIN result.ret
    /\ result.ret[pod_key(PodMetricsItems[1])].memory_bytes = 1140850688
    /\ result.ret[pod_key(PodMetricsItems[2])].memory_bytes = 2048

\* The node names of the metrics items.
MetricsNodeNames == {NodeMetricsItems[i].name : i \in 1..Len(NodeMetricsItems)}

\* C22: in every NodeMetrics entry built from live data,
\* memory_capacity_bytes is the capacity memory of the node object and
\* memory_allocatable_bytes its allocatable memory: for the node of 1Gi
\* capacity and 900Mi allocatable the fields are 1073741824 and 943718400.
C22_AllocatableMemoryReported ==
    (/\ result.op = "GetNodeMetrics"
     /\ ~result.failed
     /\ NodeMetricsItems[1].name \in DOMAIN result.ret)
    => /\ result.ret[NodeMetricsItems[1].name].memory_capacity_bytes = 1073741824
       /\ result.ret[NodeMetricsItems[1].name].memory_allocatable_bytes = 943718400

\* The CPU figure "3920m"
MilliCpu == <<"3", "9", "2", "0", "m">>

\* C23: a node whose CPU capacity or allocatable is a well-formed quantity in
\* millicores ("3920m") gets a NodeMetrics entry with that figure in cores
\* (3.92), and GetNodeMetrics still returns an entry for every node.
C23_NodeCpuFiguresConverted ==
    (/\ result.op = "GetNodeMetrics"
     /\ load_kubeconfig.ok
     /\ metrics_api.installed
     /\ result.request.throwAt = 0
     /\ metrics_api.usage \in NumericUsageSamples
     /\ MilliCpu \in {metrics_api.node_status.capacity.cpu,
                      metrics_api.node_status.allocatable.cpu})
    => /\ DOMAIN result.ret = MetricsNodeNames
       /\ metrics_api.node_status.capacity.cpu = MilliCpu
            => result.ret[NodeMetricsItems[2].name].cpu_capacity_cores = Rat(98, 25)
       /\ metrics_api.node_status.allocatable.cpu = MilliCpu
            => result.ret[NodeMetricsItems[2].name].cpu_allocatable_cores = Rat(98, 25)

\* The first address of a type in an address list, None when there is none.
FirstAddress(addresses, type) ==
    LET hit == {i \in 1..Len(addresses) : addresses[i].type = type}
    IN  IF hit = {} THEN None
        ELSE addresses[CHOOSE i \in hit : \A j \in hit : i <= j].address

\* C24: in a live ListNodes, internal_ip is the first InternalIP address and
\* external_ip the first ExternalIP address of the node's address list, also
\* when the list holds several addresses of one type; each is null when the
\* node has no address of that type.
C24_FirstAddressOfEachType ==
    (result.op = "ListNodes" /\ result.source = "live")
    => \A i \in 1..Len(result.items) :
         /\ result.items[i].internal_ip =
              FirstAddress(LiveNodes(result.cluster)[i].addresses, "InternalIP")
         /\ result.items[i].external_ip =
              FirstAddress(LiveNodes(result.cluster)[i].addresses, "ExternalIP")

\* The live entry of a namespace: its status and its counts.
LiveNamespaceEntry(cid, ns) ==
    [name |-> ns.name,
     status |-> IF ns.phase = "Active" THEN "healthy" ELSE "warning",
     pod_count |-> Len(LiveNamespacedPods(cid, ns.name)),
     deployment_count |-> Len(LiveNamespacedDeployments(cid, ns.name)),
     service_count |-> LiveServiceCount(cid, ns.name)]

\* C25: when, during a ListNamespaces, one counting query (pods, deployments
\* or services) fails for one namespace, the entries of the other namespaces
\* are still returned from live data.  The live calls are list_namespace and
\* then three counting queries per namespace, so the failing call throwAt > 1
\* belongs to the namespace of index (throwAt - 2) \div 3 + 1.
C25_NamespaceFailureIsolated ==
    (/\ result.op = "ListNamespaces"
     /\ load_kubeconfig.ok
     /\ result.request.throwAt > 1)
    => \A j \in 1..Len(LiveNamespaces(loaded)) :
          j # (result.request.throwAt - 2) \div 3 + 1
          => \E i \in 1..Len(result.items) :
                result.items[i] = LiveNamespaceEntry(loaded, LiveNamespaces(loaded)[j])

\* spec.replicas of a deployment as read_namespaced_deployment returns it,
\* 0 when it is unset.
ReplicasRead(deployment) ==
    IF deployment.replicas = <<>> THEN 0 ELSE deployment.replicas[1]

\* C26: a successful live ScaleDeployment(ns, name, r) answers with
\* previous_replicas the count the deployment had before (0 when unset) and
\* current_replicas r, its patch carries replicas only, and in the cluster
\* only the replica count of that deployment changes; a successful live
\* RestartDeployment patches the restartedAt annotation only and changes
\* nothing else, the replica count included.
C26_MutationsPatchOnlyTheirField ==
    [][ /\ (/\ result'.op = "ScaleDeployment"
            /\ result'.ret.success
            /\ calls' # <<>>)
           => LET cid == loaded'
                  name == result'.request.name
              IN  /\ result'.ret.previous_replicas =
                        ReplicasRead(cluster[cid].deployments[name])
                  /\ result'.ret.current_replicas = result'.request.replicas
                  /\ calls'[Len(calls')].api = "patch_namespaced_deployment"
                  /\ DOMAIN calls'[Len(calls')].args[3] = {"replicas"}
                  /\ cluster' = [cluster EXCEPT ![cid].deployments[name].replicas =
                                                    <<result'.request.replicas>>]
        /\ (/\ result'.op = "RestartDeployment"
            /\ result'.ret.success
            /\ calls' # <<>>)
           => LET cid == loaded'
                  name == result'.request.name
              IN  /\ DOMAIN calls'[Len(calls')].args[3] = {"restartedAt"}
                  /\ cluster' = [cluster EXCEPT ![cid].deployments[name].restartedAt =
                                                    result'.request.now]
      ]_vars

\* C26 happens: a deployment restarted and scaled to 100 before is scaled to
\* 0, the answer reports 100 and 0, and its restart annotation and the other
\* deployment are as they were.
C26_Witness ==
    /\ result.op = "ScaleDeployment"
    /\ result.ret.success
    /\ Len(calls) = 2
    /\ result.ret.previous_replicas = 100
    /\ result.ret.current_replicas = 0
    /\ cluster[loaded].deployments[result.request.name].replicas = <<0>>
    /\ cluster[loaded].deployments[result.request.name].restartedAt = 1
    /\ cluster[loaded].deployments["api"] = InitialCluster.deployments["api"]

\* The cluster a context of the kubeconfig file names.
ClusterOfContext(context) ==
    LET at == {i \in 1..Len(kubefile.contexts) : kubefile.contexts[i].name = context}
    IN  IF at = {} THEN None ELSE kubefile.contexts[CHOOSE i \in at : TRUE].cluster

\* C27: the active_cluster of a ListClusters response that follows a
\* successful SwitchContext(c), with every cluster reachable, is the cluster
\* of context c, and not another connected cluster that precedes it in the
\* listing.
C27_ActiveClusterFollowsSwitch ==
    [][ (/\ result.op = "SwitchContext"
         /\ result.ret.success
         /\ result'.op = "ListClusters"
         /\ result'.request.failing = {})
        => result'.active_cluster = ClusterOfContext(result.request.context)
      ]_vars

\* C28: a read leaves the process-wide current context as it was: across a
\* GetNodeMetrics or a GetPodMetrics, with or without a cluster argument,
\* GetCurrentContext returns the same value before and after.
C28_ReadsKeepCurrentContext ==
    [][ result'.op \in MetricsOps
        => /\ current_context' = current_context
           /\ get_current_context' = get_current_context
      ]_vars

\* C29: the loop of the demo range-query generator finishes for every start,
\* end and step the route accepts, a step of zero or a negative step
\* included, and a matrix series is returned.
C29_DemoRangeQueryTerminates ==
    (range_query.pc = "loop") ~> (range_query.pc = "returned")

\* How many times a connection is registered with the manager.
Registrations(w) ==
    Cardinality({i \in 1..Len(active_connections) : active_connections[i] = w})

\* C30: at every moment active_connections holds exactly the connections
\* whose handler has accepted the connection and has not yet returned, each
\* once: a handler that has ended, by the end of its stream, by an error
\* during the handshake or by cancellation, before or after its client
\* disconnected, has no connection left in the list; and a disconnect of a
\* connection that is not in the list leaves the list unchanged.
C30_ActiveConnectionsAreRunningHandlers ==
    /\ \A w \in WebSockets :
          Registrations(w) = IF websockets[w].pc \in {"idle", "done"} THEN 0 ELSE 1
    /\ Range(active_connections) \subseteq WebSockets
    /\ \A w \in WebSockets :
          w \notin Range(active_connections)
              => manager_disconnect(w) = active_connections

\* C30 happens: the connection registered first has ended after its client
\* disconnected, while the one registered after it is still streaming and
\* is the only one the manager holds.
C30_Witness ==
    \E w, v \in WebSockets :
        /\ w # v
        /\ websockets[w].pc = "done"
        /\ websockets[w].client = "disconnected"
        /\ websockets[w].endpoint \in Endpoints
        /\ websockets[v].pc \in {"demo_loop", "demo_sleep", "real_stream"}
        /\ active_connections = <<v>>

====
